---- MODULE Spec2Model ----
(***************************************************************************)
(* Model of the Pomodoro timer core (src/src/pomodoro_timer.py) with its   *)
(* callbacks wired to the session recorder (src/src/statistics_db.py) the  *)
(* way PomodoroMenuBarApp.__init__ wires them (src/src/menu_bar_app.py).   *)
(*                                                                         *)
(* Durations given in minutes may be fractional in the program.  Here a    *)
(* duration in minutes is an integer number of 1/MinuteDen minutes (half   *)
(* seconds), and the clock is an integer number of 1/ClockDen seconds, so  *)
(* that the truncations int(minutes * 60) and int(time.time() - t0) are    *)
(* modelled and not the identity.                                          *)
(*                                                                         *)
(* op, result, args, events and pre observe the last operation: its name,  *)
(* its outcome, its arguments, the callbacks it invoked in order, and the  *)
(* fields of the timer when it was called.  cycle_pc, work_done and        *)
(* paused_time belong to the drivers: the position of the driving loop, the *)
(* work phases run to completion, and for every session the clock time the *)
(* timer spent Paused while the session was the recorder's current one;     *)
(* percentage is the value the progress query returned last.  timer_lock   *)
(* and thread_pc are the lock of the application and the positions of its  *)
(* two threads.                                                             *)
(***************************************************************************)
EXTENDS Integers, Sequences, FiniteSets, TLC

\* ---------------------------------------------------------------- bounds
ClockDen == 2
MaxNow == 3
MaxSessions == 2
MaxExtend == 1
MaxPauses == 1
MaxRemaining == 3
MaxCycles == 3
MaxSeconds == 4
MaxTotal == 6
MaxThreadSessions == 2
MaxRecRows == 2
MaxRecNow == 5
MaxRecExtend == 1
MaxSnapHalfHours == 3
MaxSnapTicks == 2
MaxStartupHalfDays == 3

\* ------------------------------------------------------- program constants
SecondsPerMinute == 60
HoursPerDay == 24
MinuteDen == 2 * SecondsPerMinute

NoneInt == -1
NoneState == "None"

IDLE == "idle"
WORKING == "working"
SHORT_BREAK == "short_break"
LONG_BREAK == "long_break"
PAUSED == "paused"

TimerState == {IDLE, WORKING, SHORT_BREAK, LONG_BREAK, PAUSED}
Running == {WORKING, SHORT_BREAK, LONG_BREAK}

\* Configurations <<work, short break, long break, pomodoros until long
\* break>>, durations in 1/MinuteDen minutes: 1 is half a second.
Configs == {<<1, 3, 5, 2>>, <<3, 3, 5, 1>>}
CycleDurations == {<<1, 3, 5>>, <<5, 3, 7>>}
ExtendChoices == {3}
ClockBase == 1

VARIABLES
    work_minutes, short_break_minutes, long_break_minutes,
    pomodoros_until_long_break,
    state, previous_state, completed_pomodoros, remaining_seconds,
    total_seconds, current_session_id, last_session_id, extend_count,
    last_completed_session, pause_start_time, total_pause_seconds,
    pause_count, session_start_seconds,
    sessions, db_current_session_id,
    now,
    op, result, args, events, pre,
    cycle_pc, work_done, paused_time, percentage,
    ticks_applied, worked,
    timer_lock, thread_pc,
    rec_pre, orphaned,
    state_file, loaded, snap_pre,
    work_opened,
    ending,
    settled,
    deleted

configVars == <<work_minutes, short_break_minutes, long_break_minutes,
                pomodoros_until_long_break>>
timerVars == <<state, previous_state, completed_pomodoros, remaining_seconds,
               total_seconds, current_session_id, last_session_id,
               extend_count, last_completed_session, pause_start_time,
               total_pause_seconds, pause_count, session_start_seconds>>
dbVars == <<sessions, db_current_session_id>>
obsVars == <<op, result, args, events, pre>>
threadVars == <<timer_lock, thread_pc>>
workedVars == <<ticks_applied, worked>>
recVars == <<rec_pre, orphaned, deleted>>
snapVars == <<state_file, loaded, snap_pre>>
countVars == <<work_opened>>
raceVars == <<ending>>
liveVars == <<settled>>
auxVars == <<recVars, snapVars, countVars, raceVars, liveVars>>
driverVars == <<cycle_pc, work_done, paused_time, percentage, workedVars,
                threadVars, auxVars>>
vars == <<configVars, timerVars, dbVars, now, obsVars, driverVars>>

\* The fields of the timer, as a record.
TimerFields ==
    [state |-> state, previous_state |-> previous_state,
     completed_pomodoros |-> completed_pomodoros,
     remaining_seconds |-> remaining_seconds,
     total_seconds |-> total_seconds,
     current_session_id |-> current_session_id,
     last_session_id |-> last_session_id,
     extend_count |-> extend_count,
     last_completed_session |-> last_completed_session,
     pause_start_time |-> pause_start_time,
     total_pause_seconds |-> total_pause_seconds,
     pause_count |-> pause_count,
     session_start_seconds |-> session_start_seconds]

\* What every operation records about its call.
Called(name, minutes, session_id) ==
    /\ op' = name
    /\ args' = [minutes |-> minutes, session_id |-> session_id]
    /\ pre' = TimerFields

\* ------------------------------------------------------------ conversions
\* Python truthiness of an Optional number: None and 0 are false.
Truthy_Never(x) == FALSE
Truthy(x) == x /= NoneInt /\ x /= 0

\* int(minutes * 60) for a non-negative number of minutes.
ToSeconds_RoundsUp(m) ==
    (m * SecondsPerMinute + MinuteDen - 1) \div MinuteDen
ToSeconds(m) == (m * SecondsPerMinute) \div MinuteDen

\* int(time.time() - t0) for t0 not later than the clock reading t.
ElapsedSeconds_RoundsUp(t, t0) == (t - t0 + ClockDen - 1) \div ClockDen
ElapsedSeconds(t, t0) == (t - t0) \div ClockDen

Max(a, b) == IF a >= b THEN a ELSE b

\* --------------------------------------------- callbacks and the recorder
EvTick(r) == [kind |-> "tick", a |-> "", b |-> "", n |-> r, c |-> FALSE]
EvStateChange(old, new) ==
    [kind |-> "state_change", a |-> old, b |-> new, n |-> 0, c |-> FALSE]
EvComplete == [kind |-> "complete", a |-> "", b |-> "", n |-> 0, c |-> FALSE]
EvSessionStart(type, id) ==
    [kind |-> "session_start", a |-> type, b |-> "", n |-> id, c |-> FALSE]
EvSessionEnd(completed, actual) ==
    [kind |-> "session_end", a |-> "", b |-> "", n |-> actual, c |-> completed]
EvExtend == [kind |-> "extend", a |-> "", b |-> "", n |-> 0, c |-> FALSE]

\* PomodoroMenuBarApp._get_current_profile_name with the profile never
\* switched.
DefaultProfile == "Default"

\* StatisticsDB.start_session: the row inserted; its id is its index.
NewSession(type, planned, t) ==
    [session_type |-> type, start_time |-> t, end_time |-> NoneInt,
     planned_duration |-> planned, actual_duration |-> NoneInt,
     completed |-> FALSE, extend_count |-> 0,
     profile_name |-> DefaultProfile]

\* StatisticsDB.end_session(session_id=None, ...): the table afterwards.
EndSessionRows(rows, cur, completed, actual_seconds, t) ==
    IF cur = NoneInt \/ cur \notin DOMAIN rows
    THEN rows
    ELSE [rows EXCEPT ![cur] =
            [@ EXCEPT !.end_time = t,
                      !.actual_duration =
                          IF actual_seconds > 0 THEN actual_seconds
                          ELSE ElapsedSeconds(t, rows[cur].start_time),
                      !.completed = completed]]

\* StatisticsDB.add_extend(session_id=None): the table afterwards.
AddExtendRows(rows, cur) ==
    IF cur = NoneInt \/ cur \notin DOMAIN rows
    THEN rows
    ELSE [rows EXCEPT ![cur].extend_count = @ + 1]

\* PomodoroTimer.get_actual_worked_seconds on the given field values.
ActualWorkedSeconds(sss, rem, tps, st, pst, t) ==
    IF sss = 0 THEN 0
    ELSE LET time_consumed == sss - rem
             actual_worked == time_consumed - tps
             current_pause == IF st = PAUSED /\ Truthy(pst)
                              THEN ElapsedSeconds(t, pst) ELSE 0
         IN Max(0, actual_worked - current_pause)

\* PomodoroTimer.is_long_break_time
IsLongBreakTime_OneLate(cp, n) == cp > n /\ cp > 0
IsLongBreakTime(cp, n) == cp >= n /\ cp > 0

\* PomodoroTimer.is_break_time
IsBreakTime(cp) == cp > 0

\* The guard of start_work.
CanStartWork_AlsoPaused(st) == st \in {IDLE, PAUSED}
CanStartWork(st) == st = IDLE

\* The test of tick for the end of the countdown.
CountdownEnded_Negative(rem) == rem < 0
CountdownEnded_OneEarly(rem) == rem <= 1
CountdownEnded(rem) == rem <= 0

\* completed_pomodoros after _handle_timer_complete in state st.
CompletedAfterCompletion_NoReset(st, cp) ==
    IF st = WORKING THEN cp + 1 ELSE cp
CompletedAfterCompletion_CountsBreaks(st, cp) ==
    IF st = LONG_BREAK THEN 0 ELSE cp + 1
CompletedAfterCompletion_ShortBreakResets(st, cp) ==
    IF st = WORKING THEN cp + 1 ELSE 0
CompletedAfterCompletion(st, cp) ==
    IF st = WORKING THEN cp + 1
    ELSE IF st = LONG_BREAK THEN 0
    ELSE cp

\* remaining_seconds after extend(minutes).
ExtendedRemaining_Replaces(rem, minutes) == ToSeconds(minutes)
ExtendedRemaining(rem, minutes) == rem + ToSeconds(minutes)

\* completed_pomodoros after skip_break in state st.
CompletedAfterSkip_NoReset(st, cp) == cp
CompletedAfterSkip(st, cp) == IF st = LONG_BREAK THEN 0 ELSE cp

\* remaining_seconds as every transition into IDLE leaves it.
RemainingOnIdle_Kept == remaining_seconds
RemainingOnIdle == 0

\* previous_state after reset.
PreviousStateAfterReset_Kept(ps) == ps
PreviousStateAfterReset(ps) == NoneState

\* completed_pomodoros after reset.
CompletedAfterReset_Kept(cp) == cp
CompletedAfterReset(cp) == 0

\* The guard of extend_completed_session: Idle, and some phase has completed.
CanExtendCompleted_AnyState(st, lcs) == lcs \in Running
CanExtendCompleted(st, lcs) == st = IDLE /\ lcs \in Running

\* ------------------------------------------------------------------- Init
\* The auxiliary variables start the same in every specification.
AuxInit ==
    /\ rec_pre = [rows |-> <<>>, cur |-> NoneInt]
    /\ orphaned = <<>>
    /\ state_file = [kind |-> "none"]
    /\ loaded = [kind |-> "none"]
    /\ snap_pre = [file |-> [kind |-> "none"], at |-> ClockBase]
    /\ work_opened = 0
    /\ ending = [timer |-> NoneInt, main |-> NoneInt]
    /\ settled = FALSE
    /\ deleted = {}

\* PomodoroTimer.__init__ after its checks, StatisticsDB.__init__ on an
\* empty table, and nothing observed yet.
Constructed ==
    /\ state = IDLE
    /\ previous_state = NoneState
    /\ completed_pomodoros = 0
    /\ remaining_seconds = 0
    /\ total_seconds = 0
    /\ current_session_id = NoneInt
    /\ last_session_id = NoneInt
    /\ extend_count = 0
    /\ last_completed_session = NoneState
    /\ pause_start_time = NoneInt
    /\ total_pause_seconds = 0
    /\ pause_count = 0
    /\ session_start_seconds = 0
    /\ sessions = <<>>
    /\ db_current_session_id = NoneInt
    /\ now = ClockBase
    /\ op = "init"
    /\ result = "ok"
    /\ args = [minutes |-> 0, session_id |-> NoneInt]
    /\ events = <<>>
    /\ pre = TimerFields

Init ==
    /\ \E cfg \in Configs :
          /\ work_minutes = cfg[1]
          /\ short_break_minutes = cfg[2]
          /\ long_break_minutes = cfg[3]
          /\ pomodoros_until_long_break = cfg[4]
    /\ Constructed
    /\ cycle_pc = "off"
    /\ work_done = 0
    /\ paused_time = <<>>
    /\ percentage = 0
    /\ ticks_applied = 0
    /\ worked = 0
    /\ timer_lock = [owner |-> "none", depth |-> 0]
    /\ thread_pc = [timer |-> "loop", main |-> "idle"]
    /\ AuxInit

\* ---------------------------------------------------------------- actions
\* Wall-clock time passes (1/ClockDen second).
AdvanceClock ==
    /\ now < MaxNow
    /\ now' = now + 1
    /\ UNCHANGED <<configVars, timerVars, dbVars, obsVars>>

\* PomodoroTimer.start_work
StartWork ==
    /\ Called("start_work", 0, NoneInt)
    /\ IF ~CanStartWork(state)
       THEN /\ result' = "TimerStateError"
            /\ events' = <<>>
            /\ UNCHANGED <<configVars, timerVars, dbVars, now>>
       ELSE /\ result' = "ok"
            /\ total_seconds' = ToSeconds(work_minutes)
            /\ remaining_seconds' = total_seconds'
            /\ extend_count' = 0
            /\ pause_start_time' = NoneInt
            /\ total_pause_seconds' = 0
            /\ pause_count' = 0
            /\ session_start_seconds' = remaining_seconds'
            /\ sessions' = Append(sessions, NewSession("work", work_minutes, now))
            /\ db_current_session_id' = Len(sessions')
            /\ current_session_id' = db_current_session_id'
            /\ state' = WORKING
            /\ events' = <<EvSessionStart("work", current_session_id'),
                           EvStateChange(state, WORKING)>>
            /\ UNCHANGED <<configVars, previous_state, completed_pomodoros,
                           last_session_id, last_completed_session, now>>

\* PomodoroTimer.start_break (no precondition on the state)
StartBreak ==
    /\ Called("start_break", 0, NoneInt)
    /\ result' = "ok"
    /\ pause_start_time' = NoneInt
    /\ total_pause_seconds' = 0
    /\ pause_count' = 0
    /\ LET long == IsLongBreakTime(completed_pomodoros, pomodoros_until_long_break)
           session_type == IF long THEN "long_break" ELSE "short_break"
           planned_duration == IF long THEN long_break_minutes
                               ELSE short_break_minutes
           new_state == IF long THEN LONG_BREAK ELSE SHORT_BREAK
       IN /\ total_seconds' = ToSeconds(planned_duration)
          /\ state' = new_state
          /\ sessions' = Append(sessions,
                                NewSession(session_type, planned_duration, now))
          /\ db_current_session_id' = Len(sessions')
          /\ current_session_id' = db_current_session_id'
          /\ events' = <<EvStateChange(state, new_state),
                         EvSessionStart(session_type, current_session_id')>>
    /\ remaining_seconds' = total_seconds'
    /\ extend_count' = 0
    /\ session_start_seconds' = remaining_seconds'
    /\ UNCHANGED <<configVars, previous_state, completed_pomodoros,
                   last_session_id, last_completed_session, now>>

\* The callbacks of a tick that ends the countdown, in the order the code
\* makes them: on_tick (line 146), on_session_end(True) (163),
\* on_state_change through _change_state(IDLE) (170), on_timer_complete (174).
CompletionEvents_CompleteFirst(rem, actual, st) ==
    <<EvTick(rem), EvComplete, EvSessionEnd(TRUE, actual),
      EvStateChange(st, IDLE)>>
CompletionEvents(rem, actual, st) ==
    <<EvTick(rem), EvSessionEnd(TRUE, actual), EvStateChange(st, IDLE),
      EvComplete>>

\* PomodoroTimer.tick, with _handle_timer_complete when the countdown ends
Tick ==
    /\ Called("tick", 0, NoneInt)
    /\ result' = "ok"
    /\ IF state \notin Running
       THEN /\ events' = <<>>
            /\ UNCHANGED <<configVars, timerVars, dbVars, now>>
       ELSE LET rem == remaining_seconds - 1
            IN IF ~CountdownEnded(rem)
               THEN /\ remaining_seconds' = rem
                    /\ events' = <<EvTick(rem)>>
                    /\ UNCHANGED <<configVars, state, previous_state,
                                   completed_pomodoros, total_seconds,
                                   current_session_id, last_session_id,
                                   extend_count, last_completed_session,
                                   pause_start_time, total_pause_seconds,
                                   pause_count, session_start_seconds,
                                   dbVars, now>>
               ELSE LET actual == ActualWorkedSeconds(session_start_seconds,
                                      rem, total_pause_seconds, state,
                                      pause_start_time, now)
                    IN /\ last_completed_session' = state
                       /\ last_session_id' = current_session_id
                       /\ sessions' = EndSessionRows(sessions,
                                          db_current_session_id, TRUE,
                                          actual, now)
                       /\ db_current_session_id' = NoneInt
                       /\ completed_pomodoros' =
                              CompletedAfterCompletion(state,
                                                       completed_pomodoros)
                       /\ state' = IDLE
                       /\ remaining_seconds' = RemainingOnIdle
                       /\ events' = CompletionEvents(rem, actual, state)
                       /\ UNCHANGED <<configVars, previous_state,
                                      total_seconds, current_session_id,
                                      extend_count, pause_start_time,
                                      total_pause_seconds, pause_count,
                                      session_start_seconds, now>>

\* The guard of pause (line 178): the timer is counting down.
CanPause_AlsoPaused(st) == st \in Running \cup {PAUSED}
CanPause(st) == st \in Running

\* PomodoroTimer.pause
Pause ==
    /\ Called("pause", 0, NoneInt)
    /\ result' = "ok"
    /\ IF CanPause(state)
       THEN /\ previous_state' = state
            /\ state' = PAUSED
            /\ pause_start_time' = now
            /\ pause_count' = pause_count + 1
            /\ events' = <<EvStateChange(state, PAUSED)>>
            /\ UNCHANGED <<configVars, completed_pomodoros, remaining_seconds,
                           total_seconds, current_session_id, last_session_id,
                           extend_count, last_completed_session,
                           total_pause_seconds, session_start_seconds,
                           dbVars, now>>
       ELSE /\ events' = <<>>
            /\ UNCHANGED <<configVars, timerVars, dbVars, now>>

\* The pause bookkeeping shared by resume, stop and reset:
\* total_pause_seconds after folding in the pause in flight, if any.
FoldedPauseSeconds ==
    IF Truthy(pause_start_time)
    THEN total_pause_seconds + ElapsedSeconds(now, pause_start_time)
    ELSE total_pause_seconds

\* PomodoroTimer.resume
Resume ==
    /\ Called("resume", 0, NoneInt)
    /\ result' = "ok"
    /\ IF state = PAUSED /\ previous_state /= NoneState
       THEN /\ total_pause_seconds' = FoldedPauseSeconds
            /\ pause_start_time' = IF Truthy(pause_start_time) THEN NoneInt
                                   ELSE pause_start_time
            /\ state' = previous_state
            /\ previous_state' = NoneState
            /\ events' = <<EvStateChange(state, previous_state)>>
            /\ UNCHANGED <<configVars, completed_pomodoros, remaining_seconds,
                           total_seconds, current_session_id, last_session_id,
                           extend_count, last_completed_session, pause_count,
                           session_start_seconds, dbVars, now>>
       ELSE /\ events' = <<>>
            /\ UNCHANGED <<configVars, timerVars, dbVars, now>>

\* The part stop, reset and skip_break share: the session-end callback when
\* an id is held, then _change_state(IDLE).  tps and pst are the pause fields
\* at the time of the callback.
EndInterrupted(tps, pst) ==
    LET actual == ActualWorkedSeconds(session_start_seconds, remaining_seconds,
                                      tps, state, pst, now)
    IN IF Truthy(current_session_id)
       THEN /\ sessions' = EndSessionRows(sessions, db_current_session_id,
                                          FALSE, actual, now)
            /\ db_current_session_id' = NoneInt
            /\ events' = <<EvSessionEnd(FALSE, actual),
                           EvStateChange(state, IDLE)>>
       ELSE /\ events' = <<EvStateChange(state, IDLE)>>
            /\ UNCHANGED dbVars

\* PomodoroTimer.stop
Stop ==
    /\ Called("stop", 0, NoneInt)
    /\ result' = "ok"
    /\ LET fold == state = PAUSED /\ Truthy(pause_start_time)
           tps == IF fold THEN FoldedPauseSeconds ELSE total_pause_seconds
           pst == IF fold THEN NoneInt ELSE pause_start_time
       IN /\ total_pause_seconds' = tps
          /\ pause_start_time' = pst
          /\ EndInterrupted(tps, pst)
    /\ state' = IDLE
    /\ remaining_seconds' = RemainingOnIdle
    /\ current_session_id' = NoneInt
    /\ UNCHANGED <<configVars, previous_state, completed_pomodoros,
                   total_seconds, last_session_id, extend_count,
                   last_completed_session, pause_count,
                   session_start_seconds, now>>

\* PomodoroTimer.reset
Reset ==
    /\ Called("reset", 0, NoneInt)
    /\ result' = "ok"
    /\ LET fold == state = PAUSED /\ Truthy(pause_start_time)
           tps == IF fold THEN FoldedPauseSeconds ELSE total_pause_seconds
           pst == IF fold THEN NoneInt ELSE pause_start_time
       IN /\ pause_start_time' = pst
          /\ EndInterrupted(tps, pst)
    /\ state' = IDLE
    /\ remaining_seconds' = RemainingOnIdle
    /\ total_seconds' = 0
    /\ completed_pomodoros' = CompletedAfterReset(completed_pomodoros)
    /\ previous_state' = PreviousStateAfterReset(previous_state)
    /\ current_session_id' = NoneInt
    /\ extend_count' = 0
    /\ total_pause_seconds' = 0
    /\ pause_count' = 0
    /\ session_start_seconds' = 0
    /\ UNCHANGED <<configVars, last_session_id, last_completed_session, now>>

\* PomodoroTimer.extend(minutes)
Extend(minutes) ==
    /\ Called("extend", minutes, NoneInt)
    /\ result' = "ok"
    /\ IF state \in Running
       THEN /\ remaining_seconds' =
                   ExtendedRemaining(remaining_seconds, minutes)
            /\ extend_count' = extend_count + 1
            /\ sessions' = AddExtendRows(sessions, db_current_session_id)
            /\ events' = <<EvExtend>>
            /\ UNCHANGED <<configVars, state, previous_state,
                           completed_pomodoros, total_seconds,
                           current_session_id, last_session_id,
                           last_completed_session, pause_start_time,
                           total_pause_seconds, pause_count,
                           session_start_seconds, db_current_session_id, now>>
       ELSE /\ events' = <<>>
            /\ UNCHANGED <<configVars, timerVars, dbVars, now>>

\* PomodoroTimer.extend_completed_session(minutes, session_id)
ExtendCompletedSession(minutes, session_id) ==
    /\ Called("extend_completed_session", minutes, session_id)
    /\ result' = "ok"
    /\ IF CanExtendCompleted(state, last_completed_session)
       THEN /\ state' = last_completed_session
            /\ remaining_seconds' = ToSeconds(minutes)
            /\ total_seconds' = ToSeconds(minutes)
            /\ current_session_id' = session_id
            /\ extend_count' = extend_count + 1
            /\ events' = <<EvStateChange(state, last_completed_session)>>
            /\ UNCHANGED <<configVars, previous_state, completed_pomodoros,
                           last_session_id, last_completed_session,
                           pause_start_time, total_pause_seconds, pause_count,
                           session_start_seconds, dbVars, now>>
       ELSE /\ events' = <<>>
            /\ UNCHANGED <<configVars, timerVars, dbVars, now>>

\* PomodoroTimer.skip_break
SkipBreak ==
    /\ Called("skip_break", 0, NoneInt)
    /\ result' = "ok"
    /\ IF state \in {SHORT_BREAK, LONG_BREAK}
       THEN /\ completed_pomodoros' =
                   CompletedAfterSkip(state, completed_pomodoros)
            /\ EndInterrupted(total_pause_seconds, pause_start_time)
            /\ state' = IDLE
            /\ remaining_seconds' = RemainingOnIdle
            /\ current_session_id' = NoneInt
            /\ UNCHANGED <<configVars, previous_state, total_seconds,
                           last_session_id, extend_count,
                           last_completed_session, pause_start_time,
                           total_pause_seconds, pause_count,
                           session_start_seconds, now>>
       ELSE /\ events' = <<>>
            /\ UNCHANGED <<configVars, timerVars, dbVars, now>>

\* The operations of the timer, each enabled while the counters it would
\* increase are below the bounds of the model.
Next ==
    \/ AdvanceClock /\ UNCHANGED driverVars
    \/ Len(sessions) < MaxSessions /\ StartWork /\ UNCHANGED driverVars
    \/ Len(sessions) < MaxSessions /\ StartBreak /\ UNCHANGED driverVars
    \/ Tick /\ UNCHANGED driverVars
    \/ /\ state \in Running => pause_count < MaxPauses
       /\ Pause
       /\ UNCHANGED driverVars
    \/ Resume /\ UNCHANGED driverVars
    \/ Stop /\ UNCHANGED driverVars
    \/ Reset /\ UNCHANGED driverVars
    \/ \E m \in ExtendChoices :
           /\ extend_count < MaxExtend
           /\ remaining_seconds + ToSeconds(m) <= MaxRemaining
           /\ Extend(m)
           /\ UNCHANGED driverVars
    \/ \E m \in ExtendChoices : \E id \in 1..MaxSessions :
           /\ extend_count < MaxExtend
           /\ ExtendCompletedSession(m, id)
           /\ UNCHANGED driverVars
    \/ SkipBreak /\ UNCHANGED driverVars

Spec == Init /\ [][Next]_vars

\* ------------------------------------------------- the work/break cycle
\* A driver that alternates start_work, ticks to completion, start_break,
\* ticks to completion, on a fresh timer.  work_done counts the work phases
\* it has run to completion.
MaxCycleSessions == 2 * MaxCycles + 2

InitCycle ==
    /\ \E d \in CycleDurations :
          /\ work_minutes = d[1]
          /\ short_break_minutes = d[2]
          /\ long_break_minutes = d[3]
    /\ pomodoros_until_long_break \in 1..MaxCycles
    /\ Constructed
    /\ cycle_pc = "start_work"
    /\ work_done = 0
    /\ paused_time = <<>>
    /\ percentage = 0
    /\ ticks_applied = 0
    /\ worked = 0
    /\ timer_lock = [owner |-> "none", depth |-> 0]
    /\ thread_pc = [timer |-> "loop", main |-> "idle"]
    /\ AuxInit

CycleStartWork ==
    /\ cycle_pc = "start_work"
    /\ Len(sessions) < MaxCycleSessions
    /\ StartWork
    /\ cycle_pc' = "run_work"
    /\ UNCHANGED <<work_done, paused_time, percentage, workedVars, threadVars, auxVars>>

CycleRunWork ==
    /\ cycle_pc = "run_work"
    /\ Tick
    /\ cycle_pc' = IF state' = IDLE THEN "start_break" ELSE "run_work"
    /\ work_done' = IF state' = IDLE THEN work_done + 1 ELSE work_done
    /\ UNCHANGED <<paused_time, percentage, workedVars, threadVars, auxVars>>

CycleStartBreak ==
    /\ cycle_pc = "start_break"
    /\ Len(sessions) < MaxCycleSessions
    /\ StartBreak
    /\ cycle_pc' = "run_break"
    /\ UNCHANGED <<work_done, paused_time, percentage, workedVars, threadVars, auxVars>>

CycleRunBreak ==
    /\ cycle_pc = "run_break"
    /\ Tick
    /\ cycle_pc' = IF state' = IDLE THEN "start_work" ELSE "run_break"
    /\ UNCHANGED <<work_done, paused_time, percentage, workedVars, threadVars, auxVars>>

NextCycle ==
    \/ CycleStartWork
    \/ CycleRunWork
    \/ CycleStartBreak
    \/ CycleRunBreak

SpecCycle == InitCycle /\ [][NextCycle]_vars

\* ------------------------------------------- the timer under the app's loop
\* PomodoroMenuBarApp._background_timer_loop calls tick() when the timer is
\* running and then sleeps one second; the menu handlers run between two
\* iterations.  Here the handlers run right after the loop's tick, so every
\* operation happens on a whole second of the clock.  Durations are whole
\* seconds: <<work, short break, long break, pomodoros until long break>>.
ClockedConfigs == {<<2 * 2, 2 * 1, 2 * 2, 1>>}

\* PomodoroMenuBarApp.quit_app: ends the recorder's current session, without
\* actual_seconds, when the timer holds a session id.
QuitApp ==
    /\ Called("quit_app", 0, NoneInt)
    /\ result' = "ok"
    /\ events' = <<>>
    /\ IF Truthy(current_session_id)
       THEN /\ sessions' = EndSessionRows(sessions, db_current_session_id,
                                          FALSE, 0, now)
            /\ db_current_session_id' = NoneInt
       ELSE UNCHANGED dbVars
    /\ UNCHANGED <<configVars, timerVars, now>>

InitClocked ==
    /\ \E cfg \in ClockedConfigs :
          /\ work_minutes = cfg[1]
          /\ short_break_minutes = cfg[2]
          /\ long_break_minutes = cfg[3]
          /\ pomodoros_until_long_break = cfg[4]
    /\ Constructed
    /\ cycle_pc = "ops"
    /\ work_done = 0
    /\ paused_time = <<>>
    /\ percentage = 0
    /\ ticks_applied = 0
    /\ worked = 0
    /\ timer_lock = [owner |-> "none", depth |-> 0]
    /\ thread_pc = [timer |-> "loop", main |-> "idle"]
    /\ AuxInit

\* One iteration of the loop: tick() if the timer is running.
LoopTick ==
    /\ cycle_pc = "tick"
    /\ IF state \in Running
       THEN Tick
       ELSE UNCHANGED <<configVars, timerVars, dbVars, now, obsVars>>
    /\ cycle_pc' = "ops"
    /\ UNCHANGED <<work_done, paused_time, percentage, workedVars, threadVars, auxVars>>

\* time.sleep(1) of the loop; a second spent Paused is counted for the
\* recorder's current session.
LoopSleep ==
    /\ cycle_pc = "ops"
    /\ now + ClockDen <= ClockBase + MaxSeconds * ClockDen
    /\ now' = now + ClockDen
    /\ paused_time' =
           IF state = PAUSED /\ db_current_session_id \in DOMAIN paused_time
           THEN [paused_time EXCEPT ![db_current_session_id] = @ + ClockDen]
           ELSE paused_time
    /\ cycle_pc' = "tick"
    /\ UNCHANGED <<configVars, timerVars, dbVars, obsVars, work_done,
                   percentage, workedVars, threadVars, auxVars>>

NextClocked ==
    \/ LoopTick
    \/ LoopSleep
    \/ /\ cycle_pc = "ops"
       /\ Len(sessions) < MaxSessions
       /\ StartWork
       /\ paused_time' = IF result' = "ok" THEN Append(paused_time, 0)
                         ELSE paused_time
       /\ UNCHANGED <<cycle_pc, work_done, percentage, workedVars, threadVars, auxVars>>
    \/ /\ cycle_pc = "ops"
       /\ Len(sessions) < MaxSessions
       /\ StartBreak
       /\ paused_time' = Append(paused_time, 0)
       /\ UNCHANGED <<cycle_pc, work_done, percentage, workedVars, threadVars, auxVars>>
    \/ cycle_pc = "ops" /\ pause_count < MaxPauses /\ Pause
           /\ UNCHANGED driverVars
    \/ cycle_pc = "ops" /\ Resume /\ UNCHANGED driverVars
    \/ cycle_pc = "ops" /\ Stop /\ UNCHANGED driverVars
    \/ cycle_pc = "ops" /\ Reset /\ UNCHANGED driverVars
    \/ cycle_pc = "ops" /\ SkipBreak /\ UNCHANGED driverVars
    \/ /\ cycle_pc = "ops"
       /\ QuitApp
       /\ cycle_pc' = "quit"
       /\ UNCHANGED <<work_done, paused_time, percentage, workedVars, threadVars, auxVars>>

SpecClocked == InitClocked /\ [][NextClocked]_vars

\* ------------------------------------------------ a recorder that fails
\* The callbacks call StatisticsDB directly and nothing catches what it
\* raises (sqlite3.Error), so a failing recorder call ends the operation of
\* the timer at the callback: the assignments before it are made, those after
\* it are not.  A failed call leaves the recorder's table and current id
\* as they were.

\* start_work when on_session_start raises (line 109).
StartWorkRecorderFails ==
    /\ CanStartWork(state)
    /\ Called("start_work", 0, NoneInt)
    /\ result' = "RecorderError"
    /\ events' = <<>>
    /\ total_seconds' = ToSeconds(work_minutes)
    /\ remaining_seconds' = total_seconds'
    /\ extend_count' = 0
    /\ pause_start_time' = NoneInt
    /\ total_pause_seconds' = 0
    /\ pause_count' = 0
    /\ session_start_seconds' = remaining_seconds'
    /\ UNCHANGED <<configVars, state, previous_state, completed_pomodoros,
                   current_session_id, last_session_id,
                   last_completed_session, dbVars, now>>

\* start_break when on_session_start raises (line 138).
StartBreakRecorderFails ==
    /\ Called("start_break", 0, NoneInt)
    /\ result' = "RecorderError"
    /\ pause_start_time' = NoneInt
    /\ total_pause_seconds' = 0
    /\ pause_count' = 0
    /\ LET long == IsLongBreakTime(completed_pomodoros, pomodoros_until_long_break)
           new_state == IF long THEN LONG_BREAK ELSE SHORT_BREAK
       IN /\ total_seconds' = ToSeconds(IF long THEN long_break_minutes
                                        ELSE short_break_minutes)
          /\ state' = new_state
          /\ events' = <<EvStateChange(state, new_state)>>
    /\ remaining_seconds' = total_seconds'
    /\ extend_count' = 0
    /\ session_start_seconds' = remaining_seconds'
    /\ UNCHANGED <<configVars, previous_state, completed_pomodoros,
                   current_session_id, last_session_id,
                   last_completed_session, dbVars, now>>

\* tick ending the countdown when on_session_end raises (line 163).
TickRecorderFails ==
    /\ state \in Running
    /\ CountdownEnded(remaining_seconds - 1)
    /\ db_current_session_id /= NoneInt
    /\ Called("tick", 0, NoneInt)
    /\ result' = "RecorderError"
    /\ remaining_seconds' = remaining_seconds - 1
    /\ events' = <<EvTick(remaining_seconds')>>
    /\ last_completed_session' = state
    /\ last_session_id' = current_session_id
    /\ UNCHANGED <<configVars, state, previous_state, completed_pomodoros,
                   total_seconds, current_session_id, extend_count,
                   pause_start_time, total_pause_seconds, pause_count,
                   session_start_seconds, dbVars, now>>

\* stop when on_session_end raises (line 207).
StopRecorderFails ==
    /\ Truthy(current_session_id)
    /\ db_current_session_id /= NoneInt
    /\ Called("stop", 0, NoneInt)
    /\ result' = "RecorderError"
    /\ events' = <<>>
    /\ LET fold == state = PAUSED /\ Truthy(pause_start_time)
       IN /\ total_pause_seconds' =
                 IF fold THEN FoldedPauseSeconds ELSE total_pause_seconds
          /\ pause_start_time' = IF fold THEN NoneInt ELSE pause_start_time
    /\ UNCHANGED <<configVars, state, previous_state, completed_pomodoros,
                   remaining_seconds, total_seconds, current_session_id,
                   last_session_id, extend_count, last_completed_session,
                   pause_count, session_start_seconds, dbVars, now>>

\* reset when on_session_end raises (line 223): as stop.
ResetRecorderFails ==
    /\ Truthy(current_session_id)
    /\ db_current_session_id /= NoneInt
    /\ Called("reset", 0, NoneInt)
    /\ result' = "RecorderError"
    /\ events' = <<>>
    /\ LET fold == state = PAUSED /\ Truthy(pause_start_time)
       IN /\ total_pause_seconds' =
                 IF fold THEN FoldedPauseSeconds ELSE total_pause_seconds
          /\ pause_start_time' = IF fold THEN NoneInt ELSE pause_start_time
    /\ UNCHANGED <<configVars, state, previous_state, completed_pomodoros,
                   remaining_seconds, total_seconds, current_session_id,
                   last_session_id, extend_count, last_completed_session,
                   pause_count, session_start_seconds, dbVars, now>>

\* skip_break when on_session_end raises (line 287).
SkipBreakRecorderFails ==
    /\ state \in {SHORT_BREAK, LONG_BREAK}
    /\ Truthy(current_session_id)
    /\ db_current_session_id /= NoneInt
    /\ Called("skip_break", 0, NoneInt)
    /\ result' = "RecorderError"
    /\ events' = <<>>
    /\ completed_pomodoros' = CompletedAfterSkip(state, completed_pomodoros)
    /\ UNCHANGED <<configVars, state, previous_state, remaining_seconds,
                   total_seconds, current_session_id, last_session_id,
                   extend_count, last_completed_session, pause_start_time,
                   total_pause_seconds, pause_count, session_start_seconds,
                   dbVars, now>>

\* extend when on_extend raises (line 250).
ExtendRecorderFails(minutes) ==
    /\ state \in Running
    /\ db_current_session_id /= NoneInt
    /\ Called("extend", minutes, NoneInt)
    /\ result' = "RecorderError"
    /\ events' = <<>>
    /\ remaining_seconds' = ExtendedRemaining(remaining_seconds, minutes)
    /\ extend_count' = extend_count + 1
    /\ UNCHANGED <<configVars, state, previous_state, completed_pomodoros,
                   total_seconds, current_session_id, last_session_id,
                   last_completed_session, pause_start_time,
                   total_pause_seconds, pause_count, session_start_seconds,
                   dbVars, now>>

\* The timer with a recorder whose calls may fail: the operations that call
\* the recorder, each with a working and with a failing recorder.  A failing
\* tick is taken while the countdown has not run below 0.
NextFaulty ==
    \/ Len(sessions) < MaxSessions /\ StartWork /\ UNCHANGED driverVars
    \/ Len(sessions) < MaxSessions /\ StartBreak /\ UNCHANGED driverVars
    \/ Tick /\ UNCHANGED driverVars
    \/ Stop /\ UNCHANGED driverVars
    \/ Reset /\ UNCHANGED driverVars
    \/ SkipBreak /\ UNCHANGED driverVars
    \/ StartWorkRecorderFails /\ UNCHANGED driverVars
    \/ StartBreakRecorderFails /\ UNCHANGED driverVars
    \/ remaining_seconds >= 0 /\ TickRecorderFails /\ UNCHANGED driverVars
    \/ StopRecorderFails /\ UNCHANGED driverVars
    \/ ResetRecorderFails /\ UNCHANGED driverVars
    \/ SkipBreakRecorderFails /\ UNCHANGED driverVars
    \/ \E m \in ExtendChoices :
           /\ extend_count < MaxExtend
           /\ remaining_seconds + ToSeconds(m) <= MaxRemaining
           /\ ExtendRecorderFails(m)
           /\ UNCHANGED driverVars

SpecFaulty == Init /\ [][NextFaulty]_vars

\* ------------------------------------------- construction and configuration
\* Arguments of the constructor and contents of the configuration file:
\* <<work, short break, long break, pomodoros until long break>>, durations
\* in 1/MinuteDen minutes.  Two are valid, in each of the others one value
\* is not positive.
ConfigInputs ==
    {<<3, 3, 5, 1>>, <<5, 5, 3, 2>>,
     <<0, 3, 5, 1>>, <<3, 0 - 2, 5, 1>>, <<3, 3, 0, 1>>, <<3, 3, 5, 0>>}

ConfigArgs(cfg) ==
    [work |-> cfg[1], short |-> cfg[2], long |-> cfg[3], until |-> cfg[4]]

\* The checks of PomodoroTimer.__init__.
ValidConfig_CountUnchecked(w, s, l, n) == w > 0 /\ s > 0 /\ l > 0
ValidConfig(w, s, l, n) == w > 0 /\ s > 0 /\ l > 0 /\ n > 0

\* The configuration of the timer after _update_timer_from_config read new.
ConfigAfterUpdate_Ignored(old, new) == old
ConfigAfterUpdate(old, new) == new

\* No timer has been constructed yet: state is None and stands for the
\* absent object.
InitConfig ==
    /\ work_minutes = NoneInt
    /\ short_break_minutes = NoneInt
    /\ long_break_minutes = NoneInt
    /\ pomodoros_until_long_break = NoneInt
    /\ state = NoneState
    /\ previous_state = NoneState
    /\ completed_pomodoros = 0
    /\ remaining_seconds = 0
    /\ total_seconds = 0
    /\ current_session_id = NoneInt
    /\ last_session_id = NoneInt
    /\ extend_count = 0
    /\ last_completed_session = NoneState
    /\ pause_start_time = NoneInt
    /\ total_pause_seconds = 0
    /\ pause_count = 0
    /\ session_start_seconds = 0
    /\ sessions = <<>>
    /\ db_current_session_id = NoneInt
    /\ now = ClockBase
    /\ op = "none"
    /\ result = "ok"
    /\ args = [minutes |-> 0, session_id |-> NoneInt]
    /\ events = <<>>
    /\ pre = TimerFields
    /\ cycle_pc = "off"
    /\ work_done = 0
    /\ paused_time = <<>>
    /\ percentage = 0
    /\ ticks_applied = 0
    /\ worked = 0
    /\ timer_lock = [owner |-> "none", depth |-> 0]
    /\ thread_pc = [timer |-> "loop", main |-> "idle"]
    /\ AuxInit

\* PomodoroTimer.__init__(work_minutes, short_break_minutes,
\* long_break_minutes, pomodoros_until_long_break)
ConstructTimer(cfg) ==
    /\ op' = "__init__"
    /\ args' = ConfigArgs(cfg)
    /\ pre' = TimerFields
    /\ events' = <<>>
    /\ IF ~ValidConfig(cfg[1], cfg[2], cfg[3], cfg[4])
       THEN /\ result' = "ValueError"
            /\ UNCHANGED <<configVars, timerVars, dbVars, now>>
       ELSE /\ result' = "ok"
            /\ work_minutes' = cfg[1]
            /\ short_break_minutes' = cfg[2]
            /\ long_break_minutes' = cfg[3]
            /\ pomodoros_until_long_break' = cfg[4]
            /\ state' = IDLE
            /\ previous_state' = NoneState
            /\ completed_pomodoros' = 0
            /\ remaining_seconds' = 0
            /\ total_seconds' = 0
            /\ current_session_id' = NoneInt
            /\ last_session_id' = NoneInt
            /\ extend_count' = 0
            /\ last_completed_session' = NoneState
            /\ pause_start_time' = NoneInt
            /\ total_pause_seconds' = 0
            /\ pause_count' = 0
            /\ session_start_seconds' = 0
            /\ UNCHANGED <<dbVars, now>>

\* PomodoroMenuBarApp._update_timer_from_config, with cfg the values of the
\* current profile in the configuration.
UpdateTimerFromConfig(cfg) ==
    /\ op' = "_update_timer_from_config"
    /\ args' = ConfigArgs(cfg)
    /\ pre' = TimerFields
    /\ events' = <<>>
    /\ result' = "ok"
    /\ LET new == ConfigAfterUpdate(configVars, cfg)
       IN /\ work_minutes' = new[1]
          /\ short_break_minutes' = new[2]
          /\ long_break_minutes' = new[3]
          /\ pomodoros_until_long_break' = new[4]
    /\ UNCHANGED <<timerVars, dbVars, now>>

\* The timer is constructed once; then its operations and configuration
\* updates follow in any order.
NextConfig ==
    \/ \E cfg \in ConfigInputs :
           state = NoneState /\ ConstructTimer(cfg) /\ UNCHANGED driverVars
    \/ \E cfg \in ConfigInputs :
           state /= NoneState /\ UpdateTimerFromConfig(cfg)
               /\ UNCHANGED driverVars
    \/ state /= NoneState /\ Len(sessions) < MaxSessions /\ StartWork
           /\ UNCHANGED driverVars
    \/ state /= NoneState /\ Len(sessions) < MaxSessions /\ StartBreak
           /\ UNCHANGED driverVars
    \/ state /= NoneState /\ Tick /\ UNCHANGED driverVars
    \/ state /= NoneState /\ pause_count < MaxPauses /\ Pause
           /\ UNCHANGED driverVars
    \/ state /= NoneState /\ Resume /\ UNCHANGED driverVars
    \/ state /= NoneState /\ Stop /\ UNCHANGED driverVars

SpecConfig == InitConfig /\ [][NextConfig]_vars

\* ------------------------------------------------------ the progress query
Min(a, b) == IF a <= b THEN a ELSE b

\* int(a / b) for b > 0: the quotient truncated towards zero.
IntQuotient(a, b) == IF a >= 0 THEN a \div b ELSE 0 - ((0 - a) \div b)

\* PomodoroTimer.get_progress_percentage on the given field values.
GetProgressPercentage_Unclamped(total, rem) ==
    IF total = 0 THEN 0
    ELSE IF rem < 0 THEN 100
    ELSE IntQuotient((total - rem) * 100, total)
GetProgressPercentage(total, rem) ==
    IF total = 0 THEN 0
    ELSE IF rem < 0 THEN 100
    ELSE LET elapsed == total - rem
             pct == IntQuotient(elapsed * 100, total)
         IN Min(Max(pct, 0), 100)

\* total_seconds and remaining_seconds assigned directly, as the test of
\* the query does.
AssignFields(total, rem) ==
    /\ Called("assign", 0, NoneInt)
    /\ result' = "ok"
    /\ events' = <<>>
    /\ total_seconds' = total
    /\ remaining_seconds' = rem
    /\ UNCHANGED <<configVars, state, previous_state, completed_pomodoros,
                   current_session_id, last_session_id, extend_count,
                   last_completed_session, pause_start_time,
                   total_pause_seconds, pause_count, session_start_seconds,
                   dbVars, now, cycle_pc, work_done, paused_time, percentage, workedVars,
                   threadVars, auxVars>>

QueryProgress ==
    /\ Called("get_progress_percentage", 0, NoneInt)
    /\ result' = "ok"
    /\ events' = <<>>
    /\ percentage' = GetProgressPercentage(total_seconds, remaining_seconds)
    /\ UNCHANGED <<configVars, timerVars, dbVars, now, cycle_pc, work_done,
                   paused_time, workedVars, threadVars, auxVars>>

NextProgress ==
    \/ \E total \in 0..MaxTotal : \E rem \in (0 - 1)..(MaxTotal + 2) :
           AssignFields(total, rem)
    \/ QueryProgress

SpecProgress == Init /\ [][NextProgress]_vars

\* ------------------------------------------------- the application's threads
\* The background thread runs _background_timer_loop; the menu handlers run
\* on the main thread.  thread_pc.timer is "loop" (between iterations),
\* "tick" (inside tick()) or "unlock"; thread_pc.main is "idle", the name of
\* the handler in progress, or "done" after quit.
Handlers ==
    {"start_work", "start_break", "stop_timer", "reset_timer", "pause_timer",
     "resume_timer", "extend_timer", "_extend_current", "skip_break",
     "switch_profile", "quit_app"}

\* The handlers whose timer calls are inside "with self.timer_lock".
TakesLock(h) == h \notin {"switch_profile", "quit_app"}

\* threading.RLock: free, or already held by the acquiring thread.
CanAcquire_NotReentrant(t) == timer_lock.owner = "none"
CanAcquire(t) == timer_lock.owner \in {"none", t}

Acquired(t) == [owner |-> t, depth |-> timer_lock.depth + 1]

Released ==
    IF timer_lock.depth <= 1
    THEN [owner |-> "none", depth |-> 0]
    ELSE [timer_lock EXCEPT !.depth = @ - 1]

\* A step that calls no operation of the timer.
NoTimerOp == UNCHANGED <<configVars, timerVars, dbVars, now, obsVars>>

\* StatisticsDB.reopen_session: the table afterwards.
ReopenSessionRows_KeepsCompleted(rows, id) ==
    IF id \notin DOMAIN rows
    THEN rows
    ELSE [rows EXCEPT ![id] =
            [@ EXCEPT !.end_time = NoneInt,
                      !.actual_duration = NoneInt,
                      !.extend_count = @ + 1]]
ReopenSessionRows(rows, id) ==
    IF id \notin DOMAIN rows
    THEN rows
    ELSE [rows EXCEPT ![id] =
            [@ EXCEPT !.end_time = NoneInt,
                      !.actual_duration = NoneInt,
                      !.completed = FALSE,
                      !.extend_count = @ + 1]]

\* PomodoroMenuBarApp._extend_current(minutes), inside its lock: extend a
\* running phase, or reopen the last session in the recorder and continue
\* it with extend_completed_session.
ExtendCurrent(minutes) ==
    IF state \in Running
    THEN Extend(minutes)
    ELSE IF state = IDLE /\ Truthy(last_session_id)
    THEN /\ Called("extend_completed_session", minutes, last_session_id)
         /\ result' = "ok"
         /\ sessions' = ReopenSessionRows(sessions, last_session_id)
         /\ db_current_session_id' = last_session_id
         /\ IF CanExtendCompleted(state, last_completed_session)
            THEN /\ state' = last_completed_session
                 /\ remaining_seconds' = ToSeconds(minutes)
                 /\ total_seconds' = ToSeconds(minutes)
                 /\ current_session_id' = last_session_id
                 /\ extend_count' = extend_count + 1
                 /\ events' = <<EvStateChange(state, last_completed_session)>>
                 /\ UNCHANGED <<configVars, previous_state,
                                completed_pomodoros, last_session_id,
                                last_completed_session, pause_start_time,
                                total_pause_seconds, pause_count,
                                session_start_seconds, now>>
            ELSE /\ events' = <<>>
                 /\ UNCHANGED <<configVars, timerVars, now>>
    ELSE NoTimerOp

\* Midnight of the current day on the model's clock: every run lies within
\* one day.
TodayStart == 0

\* StatisticsDB.get_today_stats()['completed_pomodoros']: the rows started
\* today whose session_type is 'work' and whose completed flag is 1.
TodayCompletedPomodoros(rows) ==
    Cardinality({i \in DOMAIN rows : /\ rows[i].start_time >= TodayStart
                                     /\ rows[i].session_type = "work"
                                     /\ rows[i].completed})

\* One iteration of the loop takes the lock and looks at the state.
LoopLock ==
    /\ thread_pc.timer = "loop"
    /\ thread_pc.main \notin {"quit_app", "done"}
    /\ CanAcquire("timer")
    /\ timer_lock' = Acquired("timer")
    /\ thread_pc' = [thread_pc EXCEPT !.timer = IF state \in Running
                                                THEN "tick" ELSE "unlock"]
    /\ NoTimerOp
    /\ UNCHANGED <<cycle_pc, work_done, paused_time, percentage, workedVars, auxVars>>

\* tick(); its on_tick callback takes the lock again (_update_emoji_icon).
LoopInTick ==
    /\ thread_pc.timer = "tick"
    /\ CanAcquire("timer")
    /\ Tick
    /\ thread_pc' = [thread_pc EXCEPT !.timer = "unlock"]
    /\ UNCHANGED <<cycle_pc, work_done, paused_time, percentage, workedVars, timer_lock, auxVars>>

\* The end of the with block, then time.sleep(1).
LoopUnlock ==
    /\ thread_pc.timer = "unlock"
    /\ timer_lock' = Released
    /\ thread_pc' = [thread_pc EXCEPT !.timer = "loop"]
    /\ NoTimerOp
    /\ UNCHANGED <<cycle_pc, work_done, paused_time, percentage, workedVars, auxVars>>

\* A menu handler starts: it takes the lock if it is written to.
MainBegin(h) ==
    /\ thread_pc.main = "idle"
    /\ h \in {"start_work", "start_break", "skip_break"} =>
           Len(sessions) < MaxThreadSessions
    /\ h = "pause_timer" => pause_count < MaxPauses
    /\ h \in {"extend_timer", "_extend_current"} =>
           /\ extend_count < MaxExtend
           /\ \A i \in DOMAIN sessions : sessions[i].extend_count < MaxExtend
    /\ IF TakesLock(h)
       THEN /\ CanAcquire("main")
            /\ timer_lock' = Acquired("main")
       ELSE UNCHANGED timer_lock
    /\ thread_pc' = [thread_pc EXCEPT !.main = h]
    /\ NoTimerOp
    /\ UNCHANGED <<cycle_pc, work_done, paused_time, percentage, workedVars, auxVars>>

\* The handler h moves on to next, leaving its with block when it ends.
MainDone(h, next) ==
    /\ thread_pc.main = h
    /\ thread_pc' = [thread_pc EXCEPT !.main = next]
    /\ timer_lock' = IF TakesLock(h) /\ next = "idle" THEN Released
                      ELSE timer_lock
    /\ UNCHANGED <<cycle_pc, work_done, paused_time, percentage, workedVars, auxVars>>

NextThreads ==
    \/ LoopLock
    \/ LoopInTick
    \/ LoopUnlock
    \/ \E h \in Handlers : MainBegin(h)
    \/ /\ MainDone("start_work", "idle")
       /\ IF state = IDLE THEN StartWork ELSE NoTimerOp
    \/ /\ MainDone("start_break", "idle")
       /\ IF state = IDLE THEN StartBreak ELSE NoTimerOp
    \/ MainDone("stop_timer", "idle") /\ Stop
    \/ MainDone("reset_timer", "idle") /\ Reset
    \/ MainDone("pause_timer", "idle") /\ Pause
    \/ MainDone("resume_timer", "idle") /\ Resume
    \/ \E m \in ExtendChoices :
           MainDone("extend_timer", "idle") /\ Extend(m)
    \/ \E m \in ExtendChoices :
           MainDone("_extend_current", "idle") /\ ExtendCurrent(m)
    \/ MainDone("skip_break", "skip_break_start_work") /\ SkipBreak
    \/ /\ thread_pc.main = "skip_break_start_work"
       /\ thread_pc' = [thread_pc EXCEPT !.main = "idle"]
       /\ timer_lock' = Released
       /\ IF state = IDLE THEN StartWork ELSE NoTimerOp
       /\ UNCHANGED <<cycle_pc, work_done, paused_time, percentage, workedVars, auxVars>>
    \/ \E cfg \in Configs :
           MainDone("switch_profile", "idle") /\ UpdateTimerFromConfig(cfg)
    \/ MainDone("quit_app", "done") /\ QuitApp

SpecThreads == Init /\ [][NextThreads]_vars

\* ------------------------------------------------- the worked-time query
\* The timer with get_actual_worked_seconds as an operation of its own.
\* worked holds what the last query returned; ticks_applied counts the ticks
\* that found the timer counting down since the session began (start_work
\* or start_break), across extensions of it.

\* PomodoroTimer.get_actual_worked_seconds
GetActualWorkedSeconds ==
    /\ Called("get_actual_worked_seconds", 0, NoneInt)
    /\ result' = "ok"
    /\ events' = <<>>
    /\ worked' = ActualWorkedSeconds(session_start_seconds, remaining_seconds,
                                     total_pause_seconds, state,
                                     pause_start_time, now)
    /\ UNCHANGED <<configVars, timerVars, dbVars, now, cycle_pc, work_done,
                   paused_time, percentage, ticks_applied, threadVars, auxVars>>

WorkedFrame == UNCHANGED <<cycle_pc, work_done, paused_time, percentage,
                           worked, threadVars, auxVars>>

NextWorked ==
    \/ AdvanceClock /\ UNCHANGED driverVars
    \/ /\ Len(sessions) < MaxSessions
       /\ StartWork
       /\ ticks_applied' = IF CanStartWork(state) THEN 0 ELSE ticks_applied
       /\ WorkedFrame
    \/ /\ Len(sessions) < MaxSessions
       /\ StartBreak
       /\ ticks_applied' = 0
       /\ WorkedFrame
    \/ /\ Tick
       /\ ticks_applied' = IF state \in Running THEN ticks_applied + 1
                           ELSE ticks_applied
       /\ WorkedFrame
    \/ /\ state \in Running => pause_count < MaxPauses
       /\ Pause
       /\ UNCHANGED driverVars
    \/ Resume /\ UNCHANGED driverVars
    \/ Stop /\ UNCHANGED driverVars
    \/ SkipBreak /\ UNCHANGED driverVars
    \/ \E m \in ExtendChoices :
           /\ extend_count < MaxExtend
           /\ remaining_seconds + ToSeconds(m) <= MaxRemaining
           /\ Extend(m)
           /\ UNCHANGED driverVars
    \/ \E m \in ExtendChoices :
           /\ extend_count < MaxExtend
           /\ Truthy(last_session_id)
           /\ ExtendCompletedSession(m, last_session_id)
           /\ UNCHANGED driverVars
    \/ GetActualWorkedSeconds

SpecWorked == Init /\ [][NextWorked]_vars

\* ------------------------------------------------- the recorder on its own
\* StatisticsDB driven through its public methods, as the application and
\* the startup reconciliation call them.  rec_pre is the table and
\* current_session_id at the time of the call; orphaned is the list the
\* call returned (ids, most recent start first), empty when it returns
\* none.
RecSessions == {<<"work", 2, "Deep">>, <<"short_break", 4, "Default">>}
RecIds == 1..(MaxRecRows + 1)
RecEndings == {<<TRUE, 1>>, <<FALSE, 0>>}

RecCalled(name, id) ==
    /\ op' = name
    /\ args' = [minutes |-> 0, session_id |-> id]
    /\ result' = "ok"
    /\ events' = <<>>
    /\ rec_pre' = [rows |-> sessions, cur |-> db_current_session_id]
    /\ name /= "get_orphaned_sessions" => orphaned' = <<>>
    /\ UNCHANGED <<configVars, timerVars, pre, cycle_pc, work_done,
                   paused_time, percentage, workedVars, threadVars, deleted,
                   snapVars, countVars, raceVars, liveVars>>

\* The ids of the rows with no end_time.
OpenIds(rows) == {i \in DOMAIN rows : rows[i].end_time = NoneInt}

\* StatisticsDB.get_orphaned_sessions: the open rows ORDER BY start_time
\* DESC; rows with equal start_time come in either order.
IsOrphanedResult(seq, rows) ==
    /\ Len(seq) = Cardinality(OpenIds(rows))
    /\ \A i \in OpenIds(rows) : \E k \in DOMAIN seq : seq[k] = i
    /\ \A k \in DOMAIN seq : seq[k] \in OpenIds(rows)
    /\ \A j, k \in DOMAIN seq :
          j < k => rows[seq[j]].start_time >= rows[seq[k]].start_time

OrphanedResults(rows) ==
    {seq \in UNION {[1..n -> DOMAIN rows] : n \in 0..Len(rows)} :
        IsOrphanedResult(seq, rows)}

\* planned_duration * 60 of mark_session_as_crashed; the planned durations
\* the recorder is given here are whole seconds, so the quotient is exact.
PlannedSeconds(planned) == (planned * SecondsPerMinute) \div MinuteDen

\* StatisticsDB.mark_session_as_crashed: the table afterwards.
MarkCrashedRows_Uncapped(rows, id, t) ==
    IF id \notin DOMAIN rows
    THEN rows
    ELSE [rows EXCEPT ![id] =
            [@ EXCEPT !.end_time = t,
                      !.actual_duration =
                          ElapsedSeconds(t, rows[id].start_time),
                      !.completed = FALSE]]
MarkCrashedRows(rows, id, t) ==
    IF id \notin DOMAIN rows
    THEN rows
    ELSE [rows EXCEPT ![id] =
            [@ EXCEPT !.end_time = t,
                      !.actual_duration =
                          Min(ElapsedSeconds(t, rows[id].start_time),
                              PlannedSeconds(rows[id].planned_duration)),
                      !.completed = FALSE]]

\* Wall-clock time passes, a whole second at a time.
RecAdvanceClock ==
    /\ now + ClockDen <= MaxRecNow
    /\ now' = now + ClockDen
    /\ UNCHANGED <<configVars, timerVars, dbVars, obsVars, driverVars>>

\* StatisticsDB.start_session
RecStartSession(type, planned, profile) ==
    /\ RecCalled("start_session", NoneInt)
    /\ sessions' = Append(sessions,
                          [NewSession(type, planned, now)
                              EXCEPT !.profile_name = profile])
    /\ db_current_session_id' = Len(sessions) + 1
    /\ UNCHANGED now

\* StatisticsDB.end_session(session_id, completed, actual_seconds)
RecEndSession(id, completed, actual_seconds) ==
    LET session_id == IF id = NoneInt THEN db_current_session_id ELSE id
    IN /\ RecCalled("end_session", id)
       /\ IF session_id = NoneInt
          THEN UNCHANGED dbVars
          ELSE /\ sessions' = EndSessionRows(sessions, session_id, completed,
                                             actual_seconds, now)
               /\ db_current_session_id' =
                      IF session_id = db_current_session_id THEN NoneInt
                      ELSE db_current_session_id
       /\ UNCHANGED now

\* StatisticsDB.add_extend(session_id)
RecAddExtend(id) ==
    LET session_id == IF id = NoneInt THEN db_current_session_id ELSE id
    IN /\ RecCalled("add_extend", id)
       /\ sessions' = AddExtendRows(sessions, session_id)
       /\ UNCHANGED <<db_current_session_id, now>>

\* StatisticsDB.reopen_session(session_id)
RecReopenSession(id) ==
    /\ RecCalled("reopen_session", id)
    /\ sessions' = ReopenSessionRows(sessions, id)
    /\ db_current_session_id' = id
    /\ UNCHANGED now

\* StatisticsDB.mark_session_as_crashed(session_id)
RecMarkCrashed(id) ==
    /\ RecCalled("mark_session_as_crashed", id)
    /\ sessions' = MarkCrashedRows(sessions, id, now)
    /\ UNCHANGED <<db_current_session_id, now>>

\* StatisticsDB.get_orphaned_sessions
RecGetOrphaned ==
    /\ RecCalled("get_orphaned_sessions", NoneInt)
    /\ orphaned' \in OrphanedResults(sessions)
    /\ UNCHANGED <<dbVars, now>>

\* The rows whose extend_count a call with this id would increase stay
\* below the bound.
RecMayExtend(id) ==
    LET session_id == IF id = NoneInt THEN db_current_session_id ELSE id
    IN session_id \in DOMAIN sessions =>
           sessions[session_id].extend_count < MaxRecExtend

NextRecorder ==
    \/ RecAdvanceClock
    \/ \E new \in RecSessions :
           /\ Len(sessions) < MaxRecRows
           /\ RecStartSession(new[1], new[2], new[3])
    \/ \E id \in RecIds \cup {NoneInt} : \E how \in RecEndings :
           RecEndSession(id, how[1], how[2])
    \/ \E id \in RecIds \cup {NoneInt} :
           RecMayExtend(id) /\ RecAddExtend(id)
    \/ \E id \in RecIds : RecMayExtend(id) /\ RecReopenSession(id)
    \/ \E id \in RecIds : RecMarkCrashed(id)
    \/ RecGetOrphaned

SpecRecorder == Init /\ [][NextRecorder]_vars

\* ------------------------------------------------- the crash-recovery file
\* StateManager on its file.  state_file is the content of the file
\* ([kind |-> "none"] when it does not exist), loaded is what the last
\* load_state returned ([kind |-> "none"] for None), snap_pre is the file and
\* the time when the last operation was called.
SecondsPerHour == 3600
HalfHour == (SecondsPerHour \div 2) * ClockDen
NoFile == [kind |-> "none"]

\* Contents json.load or the reading of 'last_save' raises on: not JSON,
\* JSON without 'last_save', 'last_save' that is not an ISO date.
UnparsableFiles ==
    {[kind |-> "not_json"], [kind |-> "no_last_save"],
     [kind |-> "bad_last_save"]}

\* What save_state writes.
Snapshot(timer_state, remaining, t) ==
    [kind |-> "snapshot", timer_state |-> timer_state,
     remaining_seconds |-> remaining, last_save |-> t]

SnapshotInputs == {<<WORKING, 2>>, <<PAUSED, 1>>}

\* load_state line 66-69 succeeds.
Parses(file) == file.kind = "snapshot"

\* age_hours > 1 (line 72), age being in 1/ClockDen seconds.
SnapshotStale_AtOneHour(age) == age >= SecondsPerHour * ClockDen
SnapshotStale(age) == age > SecondsPerHour * ClockDen

SnapCalled(name) ==
    /\ op' = name
    /\ result' = "ok"
    /\ events' = <<>>
    /\ snap_pre' = [file |-> state_file, at |-> now]
    /\ UNCHANGED <<configVars, timerVars, dbVars, now, args, pre, cycle_pc,
                   work_done, paused_time, percentage, workedVars, threadVars,
                   recVars, countVars, raceVars, liveVars>>

\* Wall-clock time passes: half an hour, or 1/ClockDen second.
SnapAdvanceClock(d) ==
    /\ now + d <= ClockBase + MaxSnapHalfHours * HalfHour + MaxSnapTicks
    /\ d = 1 => (now - ClockBase) % HalfHour < MaxSnapTicks
    /\ now' = now + d
    /\ UNCHANGED <<configVars, timerVars, dbVars, obsVars, driverVars>>

\* StateManager.save_state
SaveState(timer_state, remaining) ==
    /\ SnapCalled("save_state")
    /\ state_file' = Snapshot(timer_state, remaining, now)
    /\ loaded' = NoFile

\* The file is damaged from outside (a write cut short, an edit).
CorruptFile(content) ==
    /\ state_file /= NoFile
    /\ SnapCalled("corrupt")
    /\ state_file' = content
    /\ loaded' = NoFile

\* StateManager.clear_state
ClearState ==
    /\ SnapCalled("clear_state")
    /\ state_file' = NoFile
    /\ loaded' = NoFile

\* StateManager.load_state
LoadState ==
    /\ SnapCalled("load_state")
    /\ IF state_file = NoFile
       THEN /\ loaded' = NoFile
            /\ UNCHANGED state_file
       ELSE IF ~Parses(state_file)
       THEN /\ state_file' = NoFile
            /\ loaded' = NoFile
       ELSE IF SnapshotStale(now - state_file.last_save)
       THEN /\ state_file' = NoFile
            /\ loaded' = NoFile
       ELSE /\ loaded' = state_file
            /\ UNCHANGED state_file

NextSnapshot ==
    \/ \E d \in {1, HalfHour} : SnapAdvanceClock(d)
    \/ \E in \in SnapshotInputs : SaveState(in[1], in[2])
    \/ \E content \in UnparsableFiles : CorruptFile(content)
    \/ ClearState
    \/ LoadState

SpecSnapshot == Init /\ [][NextSnapshot]_vars

\* ------------------------------------------------ startup reconciliation
\* The recorder's table over several runs of the application: sessions are
\* opened and ended, a run may end with rows left open, and the next run
\* starts with _check_orphaned_sessions.  deleted holds the ids removed by
\* DELETE FROM sessions; ids are AUTOINCREMENT and never used again.
HalfDay == (HoursPerDay \div 2) * SecondsPerHour * ClockDen

\* Wall-clock time passes, half a day at a time.
StartupAdvanceClock ==
    /\ now + HalfDay <= ClockBase + MaxStartupHalfDays * HalfDay
    /\ now' = now + HalfDay
    /\ UNCHANGED <<configVars, timerVars, dbVars, obsVars, driverVars>>

\* get_orphaned_sessions on the rows that are still in the table.
StartupOrphaned ==
    LET open == OpenIds(sessions) \ deleted
    IN {seq \in UNION {[1..n -> DOMAIN sessions] : n \in 0..Len(sessions)} :
           /\ Len(seq) = Cardinality(open)
           /\ {seq[k] : k \in DOMAIN seq} = open
           /\ \A j, k \in DOMAIN seq :
                 j < k => sessions[seq[j]].start_time
                              >= sessions[seq[k]].start_time}

\* PomodoroMenuBarApp._check_orphaned_sessions in a freshly started
\* application (StatisticsDB.current_session_id is None); response is what
\* rumps.alert returns: 1 for "Mark as Incomplete", 0 for "Delete Session".
CheckOrphanedSessions(response) ==
    /\ op' = "_check_orphaned_sessions"
    /\ args' = [minutes |-> 0, session_id |-> NoneInt]
    /\ result' = "ok"
    /\ events' = <<>>
    /\ rec_pre' = [rows |-> sessions, cur |-> db_current_session_id]
    /\ db_current_session_id' = NoneInt
    /\ \E seq \in StartupOrphaned :
          /\ orphaned' = seq
          /\ IF seq = <<>>
             THEN UNCHANGED <<sessions, deleted>>
             ELSE LET session_id == seq[1]
                      time_ago == now - sessions[session_id].start_time
                  IN IF time_ago < HoursPerDay * SecondsPerHour * ClockDen
                     THEN IF response = 1
                          THEN /\ sessions' = MarkCrashedRows(sessions,
                                                              session_id, now)
                               /\ UNCHANGED deleted
                          ELSE /\ deleted' = deleted \cup {session_id}
                               /\ UNCHANGED sessions
                     ELSE /\ sessions' =
                                [i \in DOMAIN sessions |->
                                    IF \E k \in DOMAIN seq : seq[k] = i
                                    THEN MarkCrashedRows(sessions, i, now)[i]
                                    ELSE sessions[i]]
                          /\ UNCHANGED deleted
    /\ UNCHANGED <<configVars, timerVars, now, pre, cycle_pc, work_done,
                   paused_time, percentage, workedVars, threadVars,
                   snapVars, countVars, raceVars, liveVars>>

NextStartup ==
    \/ StartupAdvanceClock
    \/ \E new \in RecSessions :
           /\ Len(sessions) < MaxRecRows
           /\ RecStartSession(new[1], new[2], new[3])
    \/ \E how \in RecEndings : RecEndSession(NoneInt, how[1], how[2])
    \/ \E response \in {0, 1} : CheckOrphanedSessions(response)

SpecStartup == Init /\ [][NextStartup]_vars

\* ------------------------------------------- work sessions and the counter
\* The operations that open, end and continue sessions, with work_opened
\* counting the work sessions requested through on_session_start since
\* completed_pomodoros was last set to 0.
CountedFrame == UNCHANGED <<cycle_pc, work_done, paused_time, percentage,
                            workedVars, threadVars, recVars, snapVars,
                            raceVars, liveVars>>

NextCounted ==
    \/ /\ Len(sessions) < MaxSessions
       /\ StartWork
       /\ work_opened' = IF CanStartWork(state) THEN work_opened + 1
                         ELSE work_opened
       /\ CountedFrame
    \/ Len(sessions) < MaxSessions /\ StartBreak /\ UNCHANGED driverVars
    \/ /\ Tick
       /\ work_opened' =
              IF state = LONG_BREAK /\ CountdownEnded(remaining_seconds - 1)
              THEN 0 ELSE work_opened
       /\ CountedFrame
    \/ Stop /\ UNCHANGED driverVars
    \/ Reset /\ work_opened' = 0 /\ CountedFrame
    \/ /\ SkipBreak
       /\ work_opened' = IF state = LONG_BREAK THEN 0 ELSE work_opened
       /\ CountedFrame
    \/ \E m \in ExtendChoices :
           /\ extend_count < MaxExtend
           /\ Truthy(last_session_id)
           /\ ExtendCompletedSession(m, last_session_id)
           /\ UNCHANGED driverVars

SpecCounted == Init /\ [][NextCounted]_vars

\* ------------------------------------------- completion against quit_app
\* The background loop and quit_app with StatisticsDB.end_session taken
\* statement by statement: read current_session_id into the local
\* session_id (lines 89-90), update the row (96-119), clear
\* current_session_id if it still equals session_id (121-122).  ending holds
\* each thread's local session_id.  quit_app takes no lock.
QuitPcs == {"quit_app", "quit_read", "quit_update", "quit_clear", "done"}

RaceFrame == UNCHANGED <<cycle_pc, work_done, paused_time, percentage,
                         workedVars, recVars, snapVars, countVars,
                         liveVars>>

\* tick() line 145-149 finds the countdown ended; _handle_timer_complete
\* calls on_session_end(True), whose end_session reads current_session_id.
RaceTickRead ==
    /\ thread_pc.timer = "tick"
    /\ CountdownEnded(remaining_seconds - 1)
    /\ ending' = [ending EXCEPT !.timer = db_current_session_id]
    /\ thread_pc' = [thread_pc EXCEPT !.timer = "end_update"]
    /\ NoTimerOp
    /\ UNCHANGED timer_lock
    /\ RaceFrame

\* end_session of the completion writes the row.
RaceTickUpdate ==
    /\ thread_pc.timer = "end_update"
    /\ sessions' = EndSessionRows(sessions, ending.timer, TRUE,
                       ActualWorkedSeconds(session_start_seconds,
                           remaining_seconds - 1, total_pause_seconds, state,
                           pause_start_time, now), now)
    /\ thread_pc' = [thread_pc EXCEPT !.timer = "end_clear"]
    /\ UNCHANGED <<configVars, timerVars, db_current_session_id, now, obsVars,
                   timer_lock, ending>>
    /\ RaceFrame

\* end_session clears current_session_id and returns; the rest of
\* _handle_timer_complete follows.
RaceTickClear ==
    LET rem == remaining_seconds - 1
        actual == ActualWorkedSeconds(session_start_seconds, rem,
                      total_pause_seconds, state, pause_start_time, now)
    IN /\ thread_pc.timer = "end_clear"
       /\ Called("tick", 0, NoneInt)
       /\ result' = "ok"
       /\ db_current_session_id' =
              IF ending.timer = db_current_session_id THEN NoneInt
              ELSE db_current_session_id
       /\ last_completed_session' = state
       /\ last_session_id' = current_session_id
       /\ completed_pomodoros' =
              CompletedAfterCompletion(state, completed_pomodoros)
       /\ state' = IDLE
       /\ remaining_seconds' = RemainingOnIdle
       /\ events' = CompletionEvents(rem, actual, state)
       /\ thread_pc' = [thread_pc EXCEPT !.timer = "unlock"]
       /\ UNCHANGED <<configVars, previous_state, total_seconds,
                      current_session_id, extend_count, pause_start_time,
                      total_pause_seconds, pause_count, session_start_seconds,
                      sessions, now, timer_lock, ending>>
       /\ RaceFrame

\* quit_app line 905, then end_session(completed=False) line by line.
QuitStep ==
    /\ thread_pc.main \in QuitPcs \ {"done"}
    /\ thread_pc' =
           [thread_pc EXCEPT !.main =
               CASE @ = "quit_app" ->
                        IF Truthy(current_session_id) THEN "quit_read"
                        ELSE "done"
                 [] @ = "quit_read" ->
                        IF db_current_session_id = NoneInt THEN "done"
                        ELSE "quit_update"
                 [] @ = "quit_update" -> "quit_clear"
                 [] OTHER -> "done"]
    /\ ending' = IF thread_pc.main = "quit_read"
                 THEN [ending EXCEPT !.main = db_current_session_id]
                 ELSE ending
    /\ sessions' = IF thread_pc.main = "quit_update"
                   THEN EndSessionRows(sessions, ending.main, FALSE, 0, now)
                   ELSE sessions
    /\ db_current_session_id' =
           IF thread_pc.main = "quit_clear"
              /\ ending.main = db_current_session_id
           THEN NoneInt ELSE db_current_session_id
    /\ UNCHANGED <<configVars, timerVars, now, obsVars, timer_lock>>
    /\ RaceFrame

NextRace ==
    \/ AdvanceClock /\ UNCHANGED driverVars
    \/ thread_pc.main \notin QuitPcs /\ LoopLock
    \/ ~CountdownEnded(remaining_seconds - 1) /\ LoopInTick
    \/ RaceTickRead
    \/ RaceTickUpdate
    \/ RaceTickClear
    \/ LoopUnlock
    \/ \E h \in {"start_work", "start_break", "quit_app"} : MainBegin(h)
    \/ /\ MainDone("start_work", "idle")
       /\ IF state = IDLE THEN StartWork ELSE NoTimerOp
    \/ /\ MainDone("start_break", "idle")
       /\ IF state = IDLE THEN StartBreak ELSE NoTimerOp
    \/ QuitStep

SpecRace == Init /\ [][NextRace]_vars

\* ------------------------------------------------- the countdown under ticks
\* The timer with on_session_start unset (as the tests construct it), so
\* that phase starts can repeat without end, driven by a loop that keeps
\* calling tick.  settled becomes true at the point from which no pause and
\* no extension is issued any more.

\* PomodoroTimer.start_work with on_session_start None
StartWorkUnrecorded ==
    /\ Called("start_work", 0, NoneInt)
    /\ IF ~CanStartWork(state)
       THEN /\ result' = "TimerStateError"
            /\ events' = <<>>
            /\ UNCHANGED <<configVars, timerVars, dbVars, now>>
       ELSE /\ result' = "ok"
            /\ total_seconds' = ToSeconds(work_minutes)
            /\ remaining_seconds' = total_seconds'
            /\ extend_count' = 0
            /\ pause_start_time' = NoneInt
            /\ total_pause_seconds' = 0
            /\ pause_count' = 0
            /\ session_start_seconds' = remaining_seconds'
            /\ state' = WORKING
            /\ events' = <<EvStateChange(state, WORKING)>>
            /\ UNCHANGED <<configVars, previous_state, completed_pomodoros,
                           current_session_id, last_session_id,
                           last_completed_session, dbVars, now>>

\* PomodoroTimer.start_break with on_session_start None
StartBreakUnrecorded ==
    /\ Called("start_break", 0, NoneInt)
    /\ result' = "ok"
    /\ pause_start_time' = NoneInt
    /\ total_pause_seconds' = 0
    /\ pause_count' = 0
    /\ LET long == IsLongBreakTime(completed_pomodoros,
                                   pomodoros_until_long_break)
           new_state == IF long THEN LONG_BREAK ELSE SHORT_BREAK
       IN /\ total_seconds' = ToSeconds(IF long THEN long_break_minutes
                                        ELSE short_break_minutes)
          /\ state' = new_state
          /\ events' = <<EvStateChange(state, new_state)>>
    /\ remaining_seconds' = total_seconds'
    /\ extend_count' = 0
    /\ session_start_seconds' = remaining_seconds'
    /\ UNCHANGED <<configVars, previous_state, completed_pomodoros,
                   current_session_id, last_session_id,
                   last_completed_session, dbVars, now>>

\* From here on no pause, extend or extend_completed_session is issued.
Settle ==
    /\ ~settled
    /\ settled' = TRUE
    /\ UNCHANGED <<configVars, timerVars, dbVars, now, obsVars, cycle_pc,
                   work_done, paused_time, percentage, workedVars, threadVars,
                   recVars, snapVars, countVars, raceVars>>

NextLive ==
    \/ Tick /\ UNCHANGED driverVars
    \/ /\ completed_pomodoros < MaxCycles
       /\ StartWorkUnrecorded
       /\ UNCHANGED driverVars
    \/ StartBreakUnrecorded /\ UNCHANGED driverVars
    \/ /\ ~settled
       /\ state \in Running => pause_count < MaxPauses
       /\ Pause
       /\ UNCHANGED driverVars
    \/ Resume /\ UNCHANGED driverVars
    \/ Stop /\ UNCHANGED driverVars
    \/ SkipBreak /\ UNCHANGED driverVars
    \/ \E m \in ExtendChoices :
           /\ ~settled
           /\ extend_count < MaxExtend
           /\ remaining_seconds + ToSeconds(m) <= MaxRemaining
           /\ Extend(m)
           /\ UNCHANGED driverVars
    \/ \E m \in ExtendChoices :
           /\ ~settled
           /\ extend_count < MaxExtend
           /\ completed_pomodoros < MaxCycles
           /\ ExtendCompletedSession(m, last_session_id)
           /\ UNCHANGED driverVars
    \/ Settle

\* _background_timer_loop keeps calling tick.
SpecLive == Init /\ [][NextLive]_vars /\ WF_vars(Tick /\ UNCHANGED driverVars)

\* ------------------------------------------------------------- properties
\* Callbacks of one kind among those the last operation invoked.
EventsOf(kind) == {i \in 1..Len(events) : events[i].kind = kind}
Count(kind) == Cardinality(EventsOf(kind))

\* The notifications to the presentation layer (tick, phase change,
\* completion), as opposed to the calls to the recorder.
Notifications ==
    {i \in 1..Len(events) :
        events[i].kind \in {"tick", "state_change", "complete"}}

\* sec is the whole seconds in a duration of `minutes` (1/MinuteDen minutes).
WholeSecondsOf(sec, minutes) ==
    /\ sec * MinuteDen <= minutes * SecondsPerMinute
    /\ minutes * SecondsPerMinute < (sec + 1) * MinuteDen

\* The last tick ended the countdown of the phase it was called in.
TickCompleted == op = "tick" /\ pre.state \in Running /\ pre.remaining_seconds <= 1

\* C1: start_work() called in Working, ShortBreak, LongBreak or Paused fails
\* with the invalid-transition error, changes no field of the timer, opens
\* no session and emits no notification.
C1_StartWorkRejected ==
    (op = "start_work" /\ pre.state /= IDLE) =>
        /\ result = "TimerStateError"
        /\ TimerFields = pre
        /\ Count("session_start") = 0
        /\ Notifications = {}

C1_Witness ==
    /\ op = "start_work"
    /\ pre.state = PAUSED
    /\ result = "TimerStateError"

\* C2: start_work() called in Idle enters Working with remaining_seconds =
\* total_seconds = the whole seconds of the configured work duration, zeroes
\* extend_count, total_pause_seconds and pause_count, sets
\* session_start_seconds to the new remaining_seconds, and requests exactly
\* one session, of type work, whose returned id becomes current_session_id.
C2_StartWorkFromIdle ==
    (op = "start_work" /\ pre.state = IDLE) =>
        /\ result = "ok"
        /\ state = WORKING
        /\ WholeSecondsOf(remaining_seconds, work_minutes)
        /\ total_seconds = remaining_seconds
        /\ extend_count = 0
        /\ total_pause_seconds = 0
        /\ pause_count = 0
        /\ session_start_seconds = remaining_seconds
        /\ Count("session_start") = 1
        /\ \A i \in EventsOf("session_start") :
              /\ events[i].a = "work"
              /\ events[i].n = current_session_id
        /\ current_session_id = Len(sessions)
        /\ sessions[current_session_id].session_type = "work"
        /\ sessions[current_session_id].end_time = NoneInt

C2_Witness ==
    /\ op = "start_work"
    /\ pre.state = IDLE
    /\ pre.extend_count > 0
    /\ state = WORKING
    /\ remaining_seconds = 1
    /\ current_session_id = 2

\* C3: start_break() enters LongBreak with remaining_seconds = the whole
\* seconds of the long-break duration exactly when completed_pomodoros >=
\* pomodoros_until_long_break and completed_pomodoros > 0, and ShortBreak
\* with the short-break duration otherwise; the session it opens has the
\* type of the phase entered.
C3_StartBreakChoice ==
    op = "start_break" =>
        LET long == /\ pre.completed_pomodoros >= pomodoros_until_long_break
                    /\ pre.completed_pomodoros > 0
        IN /\ state = IF long THEN LONG_BREAK ELSE SHORT_BREAK
           /\ WholeSecondsOf(remaining_seconds,
                             IF long THEN long_break_minutes
                             ELSE short_break_minutes)
           /\ Count("session_start") = 1
           /\ \A i \in EventsOf("session_start") :
                 /\ events[i].a = state
                 /\ events[i].n = current_session_id
           /\ sessions[current_session_id].session_type = state

C3_Witness ==
    /\ op = "start_break"
    /\ state = LONG_BREAK
    /\ pre.completed_pomodoros = pomodoros_until_long_break
    /\ remaining_seconds = 2

\* C4: tick() in Working, ShortBreak or LongBreak decrements
\* remaining_seconds by exactly 1 and emits one tick notification carrying
\* the new remaining value; tick() in Idle or Paused changes no field and
\* emits nothing.
C4_TickDecrements ==
    op = "tick" =>
        IF pre.state \in Running
        THEN /\ remaining_seconds = pre.remaining_seconds - 1
             /\ Count("tick") = 1
             /\ \A i \in EventsOf("tick") : events[i].n = remaining_seconds
        ELSE /\ TimerFields = pre
             /\ events = <<>>

\* C5: the tick that ends the countdown of a Working phase leaves the timer
\* Idle with remaining_seconds 0, completed_pomodoros one higher and the
\* completion notification fired exactly once; a tick of a Working phase that
\* does not end the countdown fires no completion and keeps the phase and the
\* counter; a tick while Idle fires no completion and changes no field.
C5_WorkCompletion ==
    /\ (TickCompleted /\ pre.state = WORKING) =>
           /\ state = IDLE
           /\ remaining_seconds = 0
           /\ completed_pomodoros = pre.completed_pomodoros + 1
           /\ Count("complete") = 1
    /\ (op = "tick" /\ pre.state = WORKING /\ ~TickCompleted) =>
           /\ state = WORKING
           /\ remaining_seconds > 0
           /\ completed_pomodoros = pre.completed_pomodoros
           /\ Count("complete") = 0
    /\ (op = "tick" /\ pre.state = IDLE) =>
           /\ Count("complete") = 0
           /\ TimerFields = pre

C5_Witness ==
    /\ TickCompleted
    /\ pre.state = WORKING
    /\ pre.remaining_seconds = 1
    /\ pre.completed_pomodoros = 1
    /\ completed_pomodoros = 2

\* C6: the tick that ends a LongBreak sets completed_pomodoros to 0, the one
\* that ends a ShortBreak leaves it unchanged; both leave the timer Idle and
\* end the session with completed = true (one session-end call, and the
\* recorder's current row closed as completed).
C6_BreakCompletion ==
    (TickCompleted /\ pre.state \in {SHORT_BREAK, LONG_BREAK}) =>
        /\ completed_pomodoros =
               IF pre.state = LONG_BREAK THEN 0 ELSE pre.completed_pomodoros
        /\ state = IDLE
        /\ Count("session_end") = 1
        /\ \A i \in EventsOf("session_end") : events[i].c = TRUE
        /\ db_current_session_id = NoneInt

C6_Witness ==
    /\ TickCompleted
    /\ pre.state = LONG_BREAK
    /\ pre.completed_pomodoros > 0
    /\ completed_pomodoros = 0
    /\ sessions[pre.current_session_id].completed

\* C7: skip_break() in a LongBreak sets completed_pomodoros to 0, in a
\* ShortBreak leaves it unchanged; in both it ends the session with
\* completed = false, leaves the timer Idle with remaining_seconds 0 and no
\* current_session_id, and does not fire the completion notification.
C7_SkipBreak ==
    (op = "skip_break" /\ pre.state \in {SHORT_BREAK, LONG_BREAK}) =>
        /\ completed_pomodoros =
               IF pre.state = LONG_BREAK THEN 0 ELSE pre.completed_pomodoros
        /\ Count("session_end") = 1
        /\ \A i \in EventsOf("session_end") : events[i].c = FALSE
        /\ state = IDLE
        /\ remaining_seconds = 0
        /\ current_session_id = NoneInt
        /\ Count("complete") = 0

C7_Witness ==
    /\ op = "skip_break"
    /\ pre.state = LONG_BREAK
    /\ pre.completed_pomodoros > 0
    /\ completed_pomodoros = 0
    /\ ~sessions[pre.current_session_id].completed
    /\ sessions[pre.current_session_id].end_time /= NoneInt

\* C8: on a fresh timer driven through start_work, ticks to completion,
\* start_break, ticks to completion, repeatedly, with N =
\* pomodoros_until_long_break: the break after the k-th work completion is a
\* LongBreak exactly when k is a multiple of N, completed_pomodoros is N
\* when that break starts, the LongBreak starts with the whole seconds of
\* the long-break duration, and completed_pomodoros is back to 0 after it.
C8_CyclePattern ==
    LET N == pomodoros_until_long_break
    IN /\ cycle_pc \in {"start_work", "run_work"} =>
              completed_pomodoros = work_done % N
       /\ cycle_pc \in {"start_break", "run_break"} =>
              completed_pomodoros = ((work_done - 1) % N) + 1
       /\ cycle_pc = "run_break" =>
              /\ state = IF work_done % N = 0 THEN LONG_BREAK
                         ELSE SHORT_BREAK
              /\ WholeSecondsOf(total_seconds,
                                IF state = LONG_BREAK THEN long_break_minutes
                                ELSE short_break_minutes)
              /\ op = "start_break" => remaining_seconds = total_seconds

C8_Witness ==
    /\ cycle_pc = "start_work"
    /\ pomodoros_until_long_break = 2
    /\ work_done = 4
    /\ last_completed_session = LONG_BREAK
    /\ completed_pomodoros = 0
    /\ Len(sessions) = 8

\* sec is the whole seconds in dt clock units (1/ClockDen seconds).
WholeSecondsElapsed(sec, dt) ==
    /\ sec * ClockDen <= dt
    /\ dt < (sec + 1) * ClockDen

\* C9: pause() in Working, ShortBreak or LongBreak followed directly by
\* resume() restores the state, leaves remaining_seconds, total_seconds,
\* completed_pomodoros, extend_count and current_session_id as they were
\* before the pause, with pause_count one higher and total_pause_seconds
\* higher by the whole seconds of clock time between the two calls.
C9_PauseStep ==
    (now' = now /\ op' = "pause" /\ state \in Running) =>
        /\ state' = PAUSED
        /\ pause_start_time' = now
        /\ pause_count' = pause_count + 1
        /\ total_pause_seconds' = total_pause_seconds

C9_ResumeStep ==
    (now' = now /\ op = "pause" /\ pre.state \in Running /\ op' = "resume") =>
        /\ state' = pre.state
        /\ remaining_seconds' = pre.remaining_seconds
        /\ total_seconds' = pre.total_seconds
        /\ completed_pomodoros' = pre.completed_pomodoros
        /\ extend_count' = pre.extend_count
        /\ current_session_id' = pre.current_session_id
        /\ pause_count' = pre.pause_count + 1
        /\ WholeSecondsElapsed(
               total_pause_seconds' - pre.total_pause_seconds,
               now - pause_start_time)

C9_PauseResume == [][C9_PauseStep /\ C9_ResumeStep]_vars

C9_Witness ==
    /\ op = "resume"
    /\ pre.state = PAUSED
    /\ pre.previous_state = SHORT_BREAK
    /\ state = SHORT_BREAK
    /\ remaining_seconds = 1
    /\ pause_count = 1
    /\ total_pause_seconds = 1

\* C10: extend(m) in Working, ShortBreak or LongBreak adds the whole seconds
\* of m minutes to remaining_seconds, adds 1 to extend_count, makes exactly
\* one extend call to the recorder, and leaves state, total_seconds,
\* completed_pomodoros and current_session_id unchanged.
C10_Extend ==
    (op = "extend" /\ pre.state \in Running) =>
        /\ WholeSecondsOf(remaining_seconds - pre.remaining_seconds,
                          args.minutes)
        /\ extend_count = pre.extend_count + 1
        /\ Count("extend") = 1
        /\ state = pre.state
        /\ total_seconds = pre.total_seconds
        /\ completed_pomodoros = pre.completed_pomodoros
        /\ current_session_id = pre.current_session_id

C10_Witness ==
    /\ op = "extend"
    /\ pre.state = SHORT_BREAK
    /\ remaining_seconds = pre.remaining_seconds + 1
    /\ remaining_seconds > total_seconds
    /\ extend_count = 1

\* C11: extend_completed_session(m, id) called in Idle once a phase has
\* completed re-enters the phase in last_completed_session with
\* remaining_seconds = total_seconds = the whole seconds of m minutes, sets
\* current_session_id to id, adds 1 to extend_count and requests no new
\* session; called in any other state, or when no phase has ever completed,
\* it changes no field and invokes no callback.
C11_ExtendCompleted ==
    op = "extend_completed_session" =>
        IF pre.state = IDLE /\ pre.last_completed_session /= NoneState
        THEN /\ state = pre.last_completed_session
             /\ state \in Running
             /\ WholeSecondsOf(remaining_seconds, args.minutes)
             /\ total_seconds = remaining_seconds
             /\ current_session_id = args.session_id
             /\ extend_count = pre.extend_count + 1
             /\ Count("session_start") = 0
        ELSE /\ TimerFields = pre
             /\ events = <<>>

C11_Witness ==
    /\ op = "extend_completed_session"
    /\ pre.state = IDLE
    /\ pre.last_completed_session = SHORT_BREAK
    /\ state = SHORT_BREAK
    /\ remaining_seconds = 1
    /\ current_session_id = pre.last_session_id
    /\ extend_count = 1

\* C12: stop() called in Working, ShortBreak, LongBreak or Paused makes
\* exactly one session-end call, with completed = false and before the
\* change of state, and leaves the timer Idle with remaining_seconds 0 and no
\* current_session_id (nor one in the recorder); completed_pomodoros is
\* unchanged and the completion notification is not fired.
C12_Stop ==
    (op = "stop" /\ pre.state /= IDLE) =>
        /\ Count("session_end") = 1
        /\ \A i \in EventsOf("session_end") :
              /\ events[i].c = FALSE
              /\ \A j \in EventsOf("state_change") : i < j
        /\ state = IDLE
        /\ remaining_seconds = 0
        /\ current_session_id = NoneInt
        /\ db_current_session_id = NoneInt
        /\ completed_pomodoros = pre.completed_pomodoros
        /\ Count("complete") = 0

C12_Witness ==
    /\ op = "stop"
    /\ pre.state = PAUSED
    /\ pre.completed_pomodoros = 1
    /\ pre.remaining_seconds > 0
    /\ state = IDLE
    /\ sessions[pre.current_session_id].end_time /= NoneInt
    /\ ~sessions[pre.current_session_id].completed

\* C13: reset() called in any state leaves the timer Idle with
\* remaining_seconds, total_seconds, completed_pomodoros, extend_count,
\* total_pause_seconds, pause_count and session_start_seconds all 0,
\* previous_state None and no current_session_id; if the timer held a
\* session id, the session-end call is made once, with completed = false.
C13_Reset ==
    op = "reset" =>
        /\ state = IDLE
        /\ remaining_seconds = 0
        /\ total_seconds = 0
        /\ completed_pomodoros = 0
        /\ extend_count = 0
        /\ total_pause_seconds = 0
        /\ pause_count = 0
        /\ session_start_seconds = 0
        /\ previous_state = NoneState
        /\ current_session_id = NoneInt
        /\ db_current_session_id = NoneInt
        /\ pre.current_session_id /= NoneInt =>
               /\ Count("session_end") = 1
               /\ \A i \in EventsOf("session_end") : events[i].c = FALSE

C13_Witness ==
    /\ op = "reset"
    /\ pre.state = PAUSED
    /\ pre.completed_pomodoros = 1
    /\ pre.extend_count = 1
    /\ pre.pause_count = 1
    /\ pre.previous_state = SHORT_BREAK
    /\ state = IDLE
    /\ completed_pomodoros = 0
    /\ sessions[pre.current_session_id].end_time /= NoneInt
    /\ ~sessions[pre.current_session_id].completed

\* C14: the actual_duration of every closed session, whichever way it was
\* closed (completion, stop, skip, reset, quit), is at most the clock time
\* from its start to its end minus the clock time the timer spent Paused
\* during it.
C14_ActualExcludesPauses ==
    \A i \in DOMAIN sessions :
        sessions[i].end_time /= NoneInt =>
            sessions[i].actual_duration * ClockDen
                <= sessions[i].end_time - sessions[i].start_time
                   - paused_time[i]

\* Sessions requested through the session-start call and not yet ended
\* through the session-end call.
OpenSessions == {i \in DOMAIN sessions : sessions[i].end_time = NoneInt}

\* C15: at most one session is open at any time, and the timer holds a
\* current_session_id only during a phase, from its start to its completion,
\* stop or skip: never while Idle.
C15_OneOpenSession ==
    /\ Cardinality(OpenSessions) <= 1
    /\ state = IDLE => current_session_id = NoneInt

\* C16: when the recorder call of start_work, of the tick that ends the
\* countdown, of stop, of skip_break or of reset fails, the state,
\* remaining_seconds and completed_pomodoros of the timer are those of the
\* transition made with a working recorder.
C16_TransitionCommits ==
    result = "RecorderError" =>
        /\ op = "start_work" =>
               /\ state = WORKING
               /\ WholeSecondsOf(remaining_seconds, work_minutes)
               /\ completed_pomodoros = pre.completed_pomodoros
        /\ op = "tick" =>
               /\ state = IDLE
               /\ remaining_seconds = 0
               /\ completed_pomodoros =
                      IF pre.state = WORKING
                      THEN pre.completed_pomodoros + 1
                      ELSE IF pre.state = LONG_BREAK THEN 0
                      ELSE pre.completed_pomodoros
        /\ op \in {"stop", "skip_break", "reset"} =>
               /\ state = IDLE
               /\ remaining_seconds = 0
               /\ completed_pomodoros =
                      IF op = "reset" \/ (pre.state = LONG_BREAK /\ op = "skip_break")
                      THEN 0 ELSE pre.completed_pomodoros

\* C17: constructing a timer with a work duration, short-break duration,
\* long-break duration or pomodoros_until_long_break that is not positive
\* fails with an error and no timer exists afterwards; with all four
\* positive it succeeds and gives an Idle timer with completed_pomodoros,
\* remaining_seconds and total_seconds 0 and the four values as given.
C17_Construction ==
    op = "__init__" =>
        IF args.work > 0 /\ args.short > 0 /\ args.long > 0 /\ args.until > 0
        THEN /\ result = "ok"
             /\ state = IDLE
             /\ completed_pomodoros = 0
             /\ remaining_seconds = 0
             /\ total_seconds = 0
             /\ configVars = <<args.work, args.short, args.long, args.until>>
        ELSE /\ result = "ValueError"
             /\ state = NoneState

C17_Witness ==
    /\ op = "__init__"
    /\ args.work > 0 /\ args.short > 0 /\ args.long > 0
    /\ args.until = 0
    /\ result = "ValueError"
    /\ state = NoneState

\* C18: a configuration update carrying a duration or a count that is not
\* positive is rejected with a configuration error and leaves the
\* configuration of the timer as it was; the three durations and
\* pomodoros_until_long_break of an existing timer are always positive.
C18_ConfigStaysValid ==
    state /= NoneState =>
        /\ work_minutes > 0
        /\ short_break_minutes > 0
        /\ long_break_minutes > 0
        /\ pomodoros_until_long_break > 0
        /\ (/\ op = "_update_timer_from_config"
            /\ ~(args.work > 0 /\ args.short > 0 /\ args.long > 0
                    /\ args.until > 0))
               => result = "ConfigurationError"

\* C19: a configuration update made while a phase is running or paused
\* leaves state, remaining_seconds, total_seconds, current_session_id and
\* every other field of the timer unchanged, and the phase keeps the planned
\* duration its session was opened with; the timer then holds the new
\* values, and a phase started afterwards runs for the whole seconds of the
\* duration configured when it starts.
C19_ConfigChangeNotRetroactive ==
    /\ (op = "_update_timer_from_config" /\ pre.state \in Running \cup {PAUSED})
           => /\ TimerFields = pre
              /\ configVars = <<args.work, args.short, args.long, args.until>>
    /\ state \in Running \cup {PAUSED} =>
           /\ sessions[current_session_id].end_time = NoneInt
           /\ WholeSecondsOf(total_seconds,
                             sessions[current_session_id].planned_duration)
    /\ (op = "start_work" /\ result = "ok") =>
           WholeSecondsOf(remaining_seconds, work_minutes)
    /\ op = "start_break" =>
           WholeSecondsOf(remaining_seconds,
                          IF state = LONG_BREAK THEN long_break_minutes
                          ELSE short_break_minutes)

C19_Witness ==
    /\ op = "_update_timer_from_config"
    /\ pre.state = WORKING
    /\ args.work = 5
    /\ work_minutes = 5
    /\ state = WORKING
    /\ sessions[current_session_id].planned_duration = 3
    /\ total_seconds = 1
    /\ remaining_seconds = 1

\* C20: the progress query returns a percentage from 0 to 100: 0 when
\* total_seconds is 0, 100 when remaining_seconds is negative, and
\* otherwise the whole percent of (total_seconds - remaining_seconds) /
\* total_seconds clamped to 0..100, which is 0 when an extension has made
\* remaining_seconds larger than total_seconds.
C20_ProgressBounds ==
    op = "get_progress_percentage" =>
        /\ percentage >= 0
        /\ percentage <= 100
        /\ total_seconds = 0 => percentage = 0
        /\ (total_seconds > 0 /\ remaining_seconds < 0) => percentage = 100
        /\ (total_seconds > 0 /\ remaining_seconds > total_seconds) =>
               percentage = 0
        /\ (total_seconds > 0 /\ remaining_seconds >= 0
               /\ remaining_seconds <= total_seconds) =>
               LET elapsed == total_seconds - remaining_seconds
               IN /\ percentage * total_seconds <= 100 * elapsed
                  /\ 100 * elapsed <= (percentage + 1) * total_seconds

C20_Witness ==
    /\ op = "get_progress_percentage"
    /\ total_seconds = 3
    /\ remaining_seconds = 5
    /\ percentage = 0

\* A thread is executing an operation of the timer (or the session close of
\* quit, or a configuration update).
InTimerOperation(t) ==
    IF t = "timer" THEN thread_pc.timer = "tick"
    ELSE thread_pc.main \notin {"idle", "done"}

\* C21: tick and every control operation run while their thread holds the
\* lock, so no two threads are ever inside an operation of the timer at the
\* same time; and the lock can be taken again by the thread that holds it,
\* so the tick's callback never blocks.
C21_MutualExclusion ==
    /\ \A t \in {"timer", "main"} :
           InTimerOperation(t) => timer_lock.owner = t
    /\ ~(InTimerOperation("timer") /\ InTimerOperation("main"))
    /\ thread_pc.timer = "tick" => CanAcquire("timer")

\* C22: after every operation, the timer being Idle implies
\* remaining_seconds = 0: completion, stop, reset and skip_break zero it on
\* entering Idle, and nothing done in Idle but a phase start changes it.
C22_IdleMeansZero ==
    state = IDLE => remaining_seconds = 0

C22_Witness ==
    /\ op = "stop"
    /\ pre.state = PAUSED
    /\ pre.remaining_seconds = 2
    /\ state = IDLE
    /\ remaining_seconds = 0

\* C23: remaining_seconds is never negative after an operation, and no
\* tick notification carries a negative value, whatever positive durations
\* are configured (sub-second ones included).
C23_NeverNegative ==
    /\ remaining_seconds >= 0
    /\ \A i \in EventsOf("tick") : events[i].n >= 0

\* previous_state changes only in pause, on entering Paused, where it
\* becomes the phase paused, and in resume, on leaving Paused, where it
\* becomes None; the operations in ops leave it as it was.
PreviousStateFrame(ops) ==
    /\ op \in ops => previous_state = pre.previous_state
    /\ (op = "pause" /\ previous_state /= pre.previous_state) =>
           /\ pre.state \in Running
           /\ state = PAUSED
           /\ previous_state = pre.state
    /\ (op = "resume" /\ previous_state /= pre.previous_state) =>
           /\ pre.state = PAUSED
           /\ state = pre.previous_state
           /\ previous_state = NoneState

\* C24 as stated: previous_state is set only by pause and cleared only by
\* resume; tick, start_work, start_break, stop, reset, extend,
\* extend_completed_session and skip_break do not change it.
C24_OnlyPauseAndResume ==
    PreviousStateFrame({"tick", "start_work", "start_break", "stop", "reset",
                        "extend", "extend_completed_session", "skip_break"})

\* C24, amended: previous_state is set only by pause and cleared only by
\* resume and by reset, which always leaves it None; tick, start_work,
\* start_break, stop, extend, extend_completed_session and skip_break do not
\* change it.
C24_PreviousStateFrame ==
    /\ PreviousStateFrame({"tick", "start_work", "start_break", "stop",
                           "extend", "extend_completed_session",
                           "skip_break"})
    /\ op = "reset" => previous_state = NoneState

C24_Witness ==
    /\ op = "reset"
    /\ pre.state = PAUSED
    /\ pre.previous_state = WORKING
    /\ previous_state = NoneState

\* C25: completed_pomodoros is never negative and changes only like this:
\* one more at the tick that completes a Working phase; 0 when a LongBreak
\* completes or is skipped, and on reset.  start_work, start_break, a tick
\* that completes nothing or completes a ShortBreak, pause, resume, stop,
\* extend, extend_completed_session and the skip of a ShortBreak leave it
\* unchanged.
C25_CompletedFrame ==
    /\ completed_pomodoros >= 0
    /\ op = "tick" =>
           completed_pomodoros =
               IF TickCompleted /\ pre.state = WORKING
               THEN pre.completed_pomodoros + 1
               ELSE IF TickCompleted /\ pre.state = LONG_BREAK THEN 0
               ELSE pre.completed_pomodoros
    /\ op = "skip_break" =>
           completed_pomodoros =
               IF pre.state = LONG_BREAK THEN 0 ELSE pre.completed_pomodoros
    /\ op = "reset" => completed_pomodoros = 0
    /\ op \in {"start_work", "start_break", "pause", "resume", "stop",
                "extend", "extend_completed_session"} =>
           completed_pomodoros = pre.completed_pomodoros

C25_Witness ==
    /\ TickCompleted
    /\ pre.state = SHORT_BREAK
    /\ pre.completed_pomodoros = 1
    /\ completed_pomodoros = 1
    /\ state = IDLE

\* C26: pause() outside Working, ShortBreak and LongBreak, resume() outside
\* Paused, extend() outside Working, ShortBreak and LongBreak, and
\* skip_break() outside ShortBreak and LongBreak leave every field of the
\* timer as it was and make no notification and no call to the recorder; in
\* particular pause() while Paused keeps previous_state and pause_count.
C26_NoOpOutsideState ==
    LET Ignored == /\ TimerFields = pre
                   /\ events = <<>>
                   /\ result = "ok"
    IN /\ (op = "pause" /\ pre.state \notin Running) => Ignored
       /\ (op = "resume" /\ pre.state /= PAUSED) => Ignored
       /\ (op = "extend" /\ pre.state \notin Running) => Ignored
       /\ (op = "skip_break" /\ pre.state \notin {SHORT_BREAK, LONG_BREAK})
              => Ignored

C26_Witness ==
    /\ op = "pause"
    /\ pre.state = PAUSED
    /\ pre.previous_state = WORKING
    /\ pre.pause_count = 1
    /\ state = PAUSED
    /\ previous_state = WORKING
    /\ pause_count = 1
    /\ events = <<>>

\* C27: when the completion callback runs, state is IDLE, remaining_seconds
\* is 0, last_completed_session is the state that just ended and
\* last_session_id is the session id the timer held for it; it is the last
\* callback of the tick, after the state change to IDLE, which comes after
\* the session-end call with completed = True.
C27_CompletionOrder ==
    \A k \in EventsOf("complete") :
        /\ k = Len(events)
        /\ state = IDLE
        /\ remaining_seconds = 0
        /\ last_completed_session = pre.state
        /\ last_session_id = pre.current_session_id
        /\ Truthy(last_session_id)
        /\ \E j \in EventsOf("state_change") :
              /\ j < k
              /\ events[j].a = pre.state
              /\ events[j].b = IDLE
              /\ \E i \in EventsOf("session_end") :
                    i < j /\ events[i].c = TRUE

C27_Witness ==
    /\ TickCompleted
    /\ pre.state = LONG_BREAK
    /\ pre.current_session_id = 2
    /\ last_completed_session = LONG_BREAK
    /\ last_session_id = 2
    /\ state = IDLE
    /\ events[Len(events)].kind = "complete"

\* C28: on_timer_complete is called only by a tick that takes
\* remaining_seconds to 0 or below in Working, ShortBreak or LongBreak, and
\* once by each such tick; no other tick and no other operation calls it.
C28_CompleteOnlyAtZero ==
    Count("complete") = IF TickCompleted THEN 1 ELSE 0

C28_Witness ==
    /\ op = "tick"
    /\ pre.state = SHORT_BREAK
    /\ pre.remaining_seconds = 1
    /\ Count("complete") = 1
    /\ Count("tick") = 1

\* C29: an operation that changes the state calls on_state_change exactly
\* once, with the state before the operation and the state after it; an
\* operation that leaves the state as it was does not call on_state_change.
C29_PhaseChangeExactlyOnce ==
    IF state /= pre.state
    THEN /\ Count("state_change") = 1
         /\ \A i \in EventsOf("state_change") :
               events[i].a = pre.state /\ events[i].b = state
    ELSE Count("state_change") = 0

\* C30: get_actual_worked_seconds returns the seconds the timer has counted
\* down in the current session: while the timer is in Working, ShortBreak
\* or LongBreak it is the number of ticks applied since the session
\* started, ticks on extension time included; and it is never negative.
C30_WorkedIsTicksApplied ==
    op = "get_actual_worked_seconds" =>
        /\ worked >= 0
        /\ state \in Running => worked = ticks_applied

\* C31: reopen_session(id) on a closed row clears its end_time and
\* actual_duration, sets completed to false and adds exactly 1 to its
\* extend_count; session_type, start_time, planned_duration and
\* profile_name of the row, its id and every other row stay as they were;
\* the row becomes the recorder's current session, and an end_session with
\* no id closes the recorder's current session.
C31_Reopen ==
    /\ (/\ op = "reopen_session"
        /\ args.session_id \in DOMAIN rec_pre.rows
        /\ rec_pre.rows[args.session_id].end_time /= NoneInt) =>
           LET id == args.session_id
               old == rec_pre.rows[id]
               new == sessions[id]
           IN /\ DOMAIN sessions = DOMAIN rec_pre.rows
              /\ new.end_time = NoneInt
              /\ new.actual_duration = NoneInt
              /\ new.completed = FALSE
              /\ new.extend_count = old.extend_count + 1
              /\ new.session_type = old.session_type
              /\ new.start_time = old.start_time
              /\ new.planned_duration = old.planned_duration
              /\ new.profile_name = old.profile_name
              /\ \A j \in DOMAIN sessions \ {id} :
                    sessions[j] = rec_pre.rows[j]
              /\ db_current_session_id = id
    /\ (/\ op = "end_session"
        /\ args.session_id = NoneInt
        /\ rec_pre.cur \in DOMAIN rec_pre.rows) =>
           /\ sessions[rec_pre.cur].end_time /= NoneInt
           /\ \A j \in DOMAIN sessions \ {rec_pre.cur} :
                 sessions[j] = rec_pre.rows[j]
           /\ db_current_session_id = NoneInt

C31_Witness ==
    /\ op = "reopen_session"
    /\ args.session_id = 1
    /\ Len(rec_pre.rows) = 2
    /\ rec_pre.rows[1].end_time /= NoneInt
    /\ rec_pre.rows[1].completed
    /\ rec_pre.rows[1].profile_name = "Deep"
    /\ rec_pre.cur = 2
    /\ sessions[1].end_time = NoneInt
    /\ ~sessions[1].completed
    /\ db_current_session_id = 1

\* C32: mark_session_as_crashed(id) on an open row sets its end_time, sets
\* completed to false and sets actual_duration to the smaller of the whole
\* seconds since start_time and the planned duration in seconds, leaving
\* every other row alone; the row is then not among the rows
\* get_orphaned_sessions returns (exactly the rows without end_time); for
\* an id with no row nothing changes.
C32_MarkCrashed ==
    /\ (/\ op = "mark_session_as_crashed"
        /\ args.session_id \in OpenIds(rec_pre.rows)) =>
           LET id == args.session_id
               old == rec_pre.rows[id]
               new == sessions[id]
               elapsed == (new.end_time - old.start_time) \div ClockDen
           IN /\ new.end_time /= NoneInt
              /\ new.completed = FALSE
              /\ new.actual_duration * MinuteDen =
                     Min(elapsed * MinuteDen,
                         old.planned_duration * SecondsPerMinute)
              /\ id \notin OpenIds(sessions)
              /\ DOMAIN sessions = DOMAIN rec_pre.rows
              /\ \A j \in DOMAIN sessions \ {id} :
                    sessions[j] = rec_pre.rows[j]
    /\ (/\ op = "mark_session_as_crashed"
        /\ args.session_id \notin DOMAIN rec_pre.rows) =>
           /\ sessions = rec_pre.rows
           /\ db_current_session_id = rec_pre.cur
    /\ op = "get_orphaned_sessions" =>
           {orphaned[k] : k \in DOMAIN orphaned} = OpenIds(sessions)

C32_Witness ==
    /\ op = "mark_session_as_crashed"
    /\ args.session_id = 1
    /\ 1 \in OpenIds(rec_pre.rows)
    /\ rec_pre.rows[1].planned_duration = 2
    /\ sessions[1].end_time - sessions[1].start_time = 2 * ClockDen
    /\ sessions[1].actual_duration = 1
    /\ ~sessions[1].completed

C34_PreviousOnlyWhenPaused ==
    previous_state /= NoneState => state = PAUSED

\* C35: on_session_end is called at most once for each session opened or
\* re-attached.  Every call of it leaves the timer Idle and a session is
\* opened or re-attached only by leaving Idle or by a phase start, so the
\* statement is that an operation calls on_session_end at most once and
\* never when it finds the timer Idle: stop() or reset() after a natural
\* completion makes no further call.
C35_SessionEndOnce ==
    /\ Count("session_end") <= 1
    /\ pre.state = IDLE => Count("session_end") = 0

\* C36: completed_pomodoros never exceeds the number of work sessions
\* opened through on_session_start since it was last set to 0, also when a
\* finished work session is continued with extend_completed_session and
\* completes again.
C36_OneCyclePerWorkSession ==
    completed_pomodoros <= work_opened

\* C37: a row written as completed by the completion of the countdown
\* stays completed (nothing reopens it here), however the steps of the
\* background thread's completion and of quit_app on the main thread
\* interleave.
C37_CompletedStays ==
    [][\A i \in DOMAIN sessions :
          sessions[i].completed => sessions'[i].completed]_vars

\* C38: while tick keeps being called, once no pause, extend or
\* extend_completed_session is issued any more, a timer in Working,
\* ShortBreak or LongBreak eventually becomes Idle.
C38_EventuallyIdle ==
    [](settled /\ state \in Running => <>(state = IDLE))

\* C39: the completed-pomodoro count of today's statistics never decreases
\* from one step of the controller to the next (start, pause, stop,
\* completion, extend, extend after completion).
C39_TodayCountMonotone ==
    [][TodayCompletedPomodoros(sessions')
         >= TodayCompletedPomodoros(sessions)]_vars

\* C40: when _check_orphaned_sessions has returned, no row of the table is
\* without end_time: every row that was open at startup has been closed as
\* interrupted or deleted.
C40_NoneLeftOpen ==
    op = "_check_orphaned_sessions" => OpenIds(sessions) \ deleted = {}
====
